---- MODULE Spec2Model ----
(***************************************************************************)
(* A model of the searcher combinators of pattern-adapters.                *)
(*                                                                         *)
(* A searcher is a value (a record tagged by `kind`); every `next()` of    *)
(* the source is an operator from a searcher to the pair of the searcher   *)
(* after the call and the SearchStep returned.  The harness actions call   *)
(* `next()` the way the repository's tests and fuzz targets do.            *)
(***************************************************************************)
EXTENDS Integers, Sequences, FiniteSets, TLC

\* Longest haystack explored (in bytes).
MaxLen == 3
\* Most empty matches of one child, where two children are combined.
MaxEmpty == 1

VARIABLES
    searcher,   \* the searcher under test
    reference,      \* the searcher it is compared with (assert_searcher_eq, assert_matches_eq)
    step,       \* what the latest call on searcher returned
    reference_step, \* what the latest call on reference returned
    trace,      \* the Match and Reject steps searcher has returned, in order
    last_end,   \* assert_integrity: end of the latest Match or Reject
    dones,      \* how many of the calls made after the first Done returned Done
    pc          \* where the harness is: "loop", "done", "checked", "panicked", ...

vars == <<searcher, reference, step, reference_step, trace, last_end, dones, pc>>

-----------------------------------------------------------------------------
(* Option<T>: None is the empty tuple, Some(x) the 1-tuple.                *)

None == <<>>
Some(x) == <<x>>
IsSome(o) == o # <<>>
Unwrap(o) == o[1]

(* core::str::pattern::SearchStep.  "Panic" is not a step of the source: it *)
(* stands for a call of next() that panicked instead of returning.         *)

Match(start, end) == [tag |-> "Match", start |-> start, end |-> end]
Reject(start, end) == [tag |-> "Reject", start |-> start, end |-> end]
Done == [tag |-> "Done", start |-> 0, end |-> 0]
Panic == [tag |-> "Panic", start |-> 0, end |-> 0]
NoStep == [tag |-> "NoStep", start |-> 0, end |-> 0]

IsSpan(st) == st.tag \in {"Match", "Reject"}

Ret(s, st) == [s |-> s, step |-> st]

Max(x, y) == IF x >= y THEN x ELSE y
Min(x, y) == IF x <= y THEN x ELSE y

-----------------------------------------------------------------------------
(* A child searcher given by the steps it returns: any sequence of Match    *)
(* and Reject steps that partitions [0, len], then Done for ever (as the    *)
(* searchers of core::str do).  Rejects are non-empty; a Match may be       *)
(* empty, at most once in a row at one position.                            *)

RECURSIVE Tails(_, _, _, _)
Tails(p, n, allowEmpty, k) ==
    (IF p = n THEN {<<>>} ELSE {})
    \cup UNION { { <<[tag |-> t, start |-> p, end |-> e]>> \o rest : rest \in Tails(e, n, TRUE, k) }
                 : t \in {"Match", "Reject"}, e \in (p + 1)..n }
    \cup (IF allowEmpty /\ k > 0
          THEN { <<Match(p, p)>> \o rest : rest \in Tails(p, n, FALSE, k - 1) }
          ELSE {})

\* Every child over a haystack of n bytes (an empty Match allowed at every position).
Partitions(n) == Tails(0, n, TRUE, n + 1)

\* No two Rejects in a row (a searcher only read through next_match() shows no more).
MergedRejects(steps) ==
    \A i \in 1..(Len(steps) - 1) : ~(steps[i].tag = "Reject" /\ steps[i + 1].tag = "Reject")

\* The children of a combinator of two searchers: at most MaxEmpty empty matches each.
PairChildren(n) == {x \in Tails(0, n, TRUE, MaxEmpty) : MergedRejects(x)}

Leaf(steps, n) == [kind |-> "leaf", steps |-> steps, pos |-> 0, len |-> n]

Leaf_next(s) ==
    IF s.pos < Len(s.steps)
    THEN Ret([s EXCEPT !.pos = s.pos + 1], s.steps[s.pos + 1])
    ELSE Ret(s, Done)

\* The Match steps of a step sequence, as (start, end) pairs, in order.
RECURSIVE MatchesOf(_)
MatchesOf(steps) ==
    IF steps = <<>> THEN <<>>
    ELSE (IF Head(steps).tag = "Match" THEN <<<<Head(steps).start, Head(steps).end>>>> ELSE <<>>)
         \o MatchesOf(Tail(steps))

-----------------------------------------------------------------------------
(* logic::not                                                               *)

NotSearcher(inner) == [kind |-> "not", inner |-> inner]

\* NotSearcher::next with the arm for Reject handing the Reject on.
NotSearcher_next_reject_kept(s, r) ==
    CASE r.step.tag = "Match" ->
             Ret([s EXCEPT !.inner = r.s], Reject(r.step.start, r.step.end))
      [] OTHER -> Ret([s EXCEPT !.inner = r.s], r.step)

\* NotSearcher::next, r being what self.0.next() returned.
NotSearcher_next(s, r) ==
    CASE r.step.tag = "Match" ->
             Ret([s EXCEPT !.inner = r.s], Reject(r.step.start, r.step.end))
      [] r.step.tag = "Reject" ->
             Ret([s EXCEPT !.inner = r.s], Match(r.step.start, r.step.end))
      [] OTHER -> Ret([s EXCEPT !.inner = r.s], r.step)

-----------------------------------------------------------------------------
(* The searchers a combinator holds: a leaf, or the NotSearcher of a leaf.  *)

Child_next(s) ==
    IF s.kind = "not" THEN NotSearcher_next(s, Leaf_next(s.inner)) ELSE Leaf_next(s)

RECURSIVE haystack_len(_)

\* The matches of a two-character literal, returned one by one.
StrSearcher_next_match(s) ==
    IF s.pos < Len(s.matches)
    THEN [s |-> [s EXCEPT !.pos = @ + 1], m |-> Some(s.matches[s.pos + 1]), panic |-> FALSE]
    ELSE [s |-> s, m |-> None, panic |-> FALSE]

(* Searcher::next_match, the provided method, of a child: call next() until *)
(* it returns a Match or Done.                                              *)
RECURSIVE next_match(_)

\* What next_match() does with the step r that next() returned.
next_match_step(r) ==
    CASE r.step.tag = "Match" ->
             [s |-> r.s, m |-> Some(<<r.step.start, r.step.end>>), panic |-> FALSE]
      [] r.step.tag = "Done" -> [s |-> r.s, m |-> None, panic |-> FALSE]
      [] r.step.tag = "Panic" -> [s |-> r.s, m |-> None, panic |-> TRUE]
      [] OTHER -> next_match(r.s)

next_match(s) == next_match_step(Child_next(s))

-----------------------------------------------------------------------------
(* utils::Range                                                             *)

\* A From<(usize, usize)> that puts the smaller bound first.
Range_from_sorted(pair) == [start |-> Min(pair[1], pair[2]), end |-> Max(pair[1], pair[2])]

Range_from(pair) == [start |-> pair[1], end |-> pair[2]]
Range_into(r) == <<r.start, r.end>>
Range_len(r) == Max(r.start, r.end) - Min(r.start, r.end)
Range_is_empty(r) == Range_len(r) = 0

\* intersect without the test `other.is_empty()`.
Range_intersect_other_unchecked(self, other) ==
    IF \/ other.start >= self.end
       \/ self.start >= other.end
       \/ Range_len(self) = 0
    THEN None
    ELSE Some([start |-> Max(self.start, other.start), end |-> Min(self.end, other.end)])

Range_intersect(self, other) ==
    IF \/ other.start >= self.end
       \/ self.start >= other.end
       \/ Range_is_empty(other)
       \/ Range_is_empty(self)
    THEN None
    ELSE Some(Range_from(<<Max(self.start, other.start), Min(self.end, other.end)>>))

-----------------------------------------------------------------------------
(* logic::or                                                                *)

\* A tie-break that ignores which of lor and ror built the searcher.
ToMatch_always_left(f, a, b) == "Left"

\* The tie-break of LOrPattern and of ROrPattern.
ToMatch(f, a, b) == IF f = "Left" THEN "Left" ELSE "Right"

OrSearcher(a, b, f) ==
    [kind |-> "or", a |-> a, b |-> b, index |-> 0, next_match |-> None,
     cached_match |-> None, f |-> f,
     debug_assert_failed |-> FALSE]

OrSearcher_any_step(s, st) ==
    Ret(IF IsSpan(st) THEN [s EXCEPT !.index = st.end] ELSE s, st)

OrSearcher_reject_to(s, end) ==
    OrSearcher_any_step(s, Reject(s.index, end))

\* match_step, but without keeping the match for the following call.
OrSearcher_match_step_unbuffered(s, start, end) ==
    IF s.index < start
    THEN OrSearcher_reject_to(s, start)
    ELSE OrSearcher_any_step(
             [s EXCEPT !.debug_assert_failed = @ \/ (s.index # start)],
             Match(start, end))

OrSearcher_match_step(s, start, end) ==
    IF s.index < start
    THEN OrSearcher_reject_to([s EXCEPT !.next_match = Some(<<start, end>>)], start)
    ELSE OrSearcher_any_step(
             [s EXCEPT !.debug_assert_failed = @ \/ (s.index # start)],
             Match(start, end))

\* The three arms of next_matches: c is the cached match taken, t is self
\* without it, ra and rb are what self.a.next_match() and self.b.next_match()
\* returned.
OrSearcher_cached_a(t, c, rb) ==
    [s |-> [t EXCEPT !.b = rb.s],
     a |-> Some(<<c.start, c.end>>), b |-> rb.m, panic |-> rb.panic]

OrSearcher_cached_b(t, c, ra) ==
    [s |-> [t EXCEPT !.a = ra.s],
     a |-> ra.m, b |-> Some(<<c.start, c.end>>), panic |-> ra.panic]

OrSearcher_cached_none(t, ra, rb) ==
    [s |-> [t EXCEPT !.a = ra.s, !.b = rb.s],
     a |-> ra.m, b |-> rb.m, panic |-> ra.panic \/ rb.panic]

OrSearcher_next_matches(s) ==
    IF IsSome(s.cached_match) /\ Unwrap(s.cached_match).side = "A"
    THEN OrSearcher_cached_a([s EXCEPT !.cached_match = None],
                             Unwrap(s.cached_match), next_match(s.b))
    ELSE IF IsSome(s.cached_match) /\ Unwrap(s.cached_match).side = "B"
    THEN OrSearcher_cached_b([s EXCEPT !.cached_match = None],
                             Unwrap(s.cached_match), next_match(s.a))
    ELSE OrSearcher_cached_none([s EXCEPT !.cached_match = None],
                                next_match(s.a), next_match(s.b))

\* The arm (Some(a), Some(b)) of OrSearcher::next, but leaving the range of A
\* in the cache when the tie-break of two conflicting ranges chooses B.
OrSearcher_select_caching(s, pa, pb) ==
    LET a == Range_from(pa)
        b == Range_from(pb)
    IN  IF IsSome(Range_intersect(a, b)) \/ IsSome(Range_intersect(b, a)) \/ a = b
        THEN IF ToMatch(s.f, a, b) = "Left"
             THEN [s |-> s, unreachable |-> FALSE, m |-> Range_into(a)]
             ELSE [s |-> [s EXCEPT !.cached_match =
                             Some([side |-> "A", start |-> a.start, end |-> a.end])],
                   unreachable |-> FALSE, m |-> Range_into(b)]
        ELSE IF a.start < b.start
        THEN [s |-> [s EXCEPT !.cached_match =
                        Some([side |-> "B", start |-> b.start, end |-> b.end])],
              unreachable |-> FALSE, m |-> Range_into(a)]
        ELSE IF a.start > b.start
        THEN [s |-> [s EXCEPT !.cached_match =
                        Some([side |-> "A", start |-> a.start, end |-> a.end])],
              unreachable |-> FALSE, m |-> Range_into(b)]
        ELSE [s |-> s, unreachable |-> TRUE, m |-> Range_into(a)]

\* The arm (Some(a), Some(b)) of OrSearcher::next: which range is matched and
\* what is cached; `unreachable` when the source reaches unreachable!().
OrSearcher_select(s, pa, pb) ==
    LET a == Range_from(pa)
        b == Range_from(pb)
    IN  IF IsSome(Range_intersect(a, b)) \/ IsSome(Range_intersect(b, a)) \/ a = b
        THEN [s |-> s, unreachable |-> FALSE,
              m |-> IF ToMatch(s.f, a, b) = "Left" THEN Range_into(a) ELSE Range_into(b)]
        ELSE IF a.start < b.start
        THEN [s |-> [s EXCEPT !.cached_match =
                        Some([side |-> "B", start |-> b.start, end |-> b.end])],
              unreachable |-> FALSE, m |-> Range_into(a)]
        ELSE IF a.start > b.start
        THEN [s |-> [s EXCEPT !.cached_match =
                        Some([side |-> "A", start |-> a.start, end |-> a.end])],
              unreachable |-> FALSE, m |-> Range_into(b)]
        ELSE [s |-> s, unreachable |-> TRUE, m |-> Range_into(a)]

\* `self.match_step(start, end)` on the range selected.
OrSearcher_selected(sel) ==
    IF sel.unreachable THEN Ret(sel.s, Panic)
    ELSE OrSearcher_match_step(sel.s, sel.m[1], sel.m[2])

\* `match self.next_matches()`, nm being what next_matches() returned.
OrSearcher_arms(nm) ==
    IF nm.panic THEN Ret(nm.s, Panic)
    ELSE IF IsSome(nm.a) /\ IsSome(nm.b)
    THEN OrSearcher_selected(OrSearcher_select(nm.s, Unwrap(nm.a), Unwrap(nm.b)))
    ELSE IF IsSome(nm.a)
    THEN OrSearcher_match_step(nm.s, Unwrap(nm.a)[1], Unwrap(nm.a)[2])
    ELSE IF IsSome(nm.b)
    THEN OrSearcher_match_step(nm.s, Unwrap(nm.b)[1], Unwrap(nm.b)[2])
    ELSE OrSearcher_reject_to(nm.s, haystack_len(nm.s))

\* OrSearcher::next asking the children for their matches before it returns
\* Done at the end of the haystack.
OrSearcher_next_pulls_at_end(s) ==
    IF IsSome(s.next_match)
    THEN OrSearcher_any_step([s EXCEPT !.next_match = None],
                             Match(Unwrap(s.next_match)[1], Unwrap(s.next_match)[2]))
    ELSE IF s.index >= haystack_len(s)
    THEN Ret(OrSearcher_next_matches(s).s, Done)
    ELSE OrSearcher_arms(OrSearcher_next_matches(s))

OrSearcher_next(s) ==
    IF IsSome(s.next_match)
    THEN OrSearcher_any_step([s EXCEPT !.next_match = None],
                             Match(Unwrap(s.next_match)[1], Unwrap(s.next_match)[2]))
    ELSE IF s.index >= haystack_len(s)
    THEN Ret(s, Done)
    ELSE OrSearcher_arms(OrSearcher_next_matches(s))

-----------------------------------------------------------------------------
(* adapters::then                                                           *)

ThenSearcher(first, then) ==
    [kind |-> "then", first |-> first, then |-> then, index |-> 0,
     next_then |-> None, next_match |-> None,
     debug_assert_failed |-> FALSE]

\* `while let Some((start, end)) = self.then.next_match()` of next_then_match.
RECURSIVE ThenSearcher_skip_then(_, _)

\* One iteration of it: t is self after the call of self.then.next_match()
\* that returned r.
ThenSearcher_skip_step(t, after, r) ==
    IF r.panic THEN [s |-> t, m |-> None, panic |-> TRUE]
    ELSE IF ~IsSome(r.m) THEN [s |-> t, m |-> None, panic |-> FALSE]
    ELSE IF Unwrap(r.m)[2] > after
    THEN [s |-> [t EXCEPT !.next_then = r.m], m |-> r.m, panic |-> FALSE]
    ELSE ThenSearcher_skip_then(t, after)

ThenSearcher_skip_pulled(s, after, r) ==
    ThenSearcher_skip_step([s EXCEPT !.then = r.s], after, r)

ThenSearcher_skip_then(s, after) ==
    ThenSearcher_skip_pulled(s, after, next_match(s.then))

\* `self.next_then.or_else(|| self.then.next_match())`.
ThenSearcher_cached_or_next(s) ==
    IF IsSome(s.next_then)
    THEN [s |-> s.then, m |-> s.next_then, panic |-> FALSE]
    ELSE next_match(s.then)

\* The body of next_then_match accepting a match of self.then that starts
\* before `after` as long as it does not end before it.
ThenSearcher_then_check_early(t, after, r) ==
    IF r.panic THEN [s |-> t, m |-> None, panic |-> TRUE]
    ELSE IF ~IsSome(r.m) THEN [s |-> t, m |-> None, panic |-> FALSE]
    ELSE IF Unwrap(r.m)[2] < after
    THEN ThenSearcher_skip_then(t, after)
    ELSE [s |-> [t EXCEPT !.next_then = r.m], m |-> r.m, panic |-> FALSE]

ThenSearcher_then_pulled_early(s, after, r) ==
    ThenSearcher_then_check_early([s EXCEPT !.then = r.s], after, r)

ThenSearcher_next_then_match_early(s, after) ==
    ThenSearcher_then_pulled_early(s, after, ThenSearcher_cached_or_next(s))

\* The body of next_then_match: t is self after the cached match or the call
\* of self.then.next_match() gave r.
ThenSearcher_then_check(t, after, r) ==
    IF r.panic THEN [s |-> t, m |-> None, panic |-> TRUE]
    ELSE IF ~IsSome(r.m) THEN [s |-> t, m |-> None, panic |-> FALSE]
    ELSE IF Unwrap(r.m)[2] < after \/ Unwrap(r.m)[1] < after
    THEN ThenSearcher_skip_then(t, after)
    ELSE [s |-> [t EXCEPT !.next_then = r.m], m |-> r.m, panic |-> FALSE]

ThenSearcher_then_pulled(s, after, r) ==
    ThenSearcher_then_check([s EXCEPT !.then = r.s], after, r)

ThenSearcher_next_then_match(s, after) ==
    ThenSearcher_then_pulled(s, after, ThenSearcher_cached_or_next(s))

\* next_internal_match without its filter `start >= self.index`.
ThenSearcher_internal_unfiltered(s, r) ==
    [s |-> [s EXCEPT !.first = r.s], m |-> r.m, panic |-> r.panic]

ThenSearcher_next_internal_match_unfiltered(s) ==
    ThenSearcher_internal_unfiltered(s, next_match(s.first))

RECURSIVE ThenSearcher_next_internal_match(_)

\* One iteration of `while let Some((start, end)) = self.first.next_match()`:
\* t is self after the call that returned r.
ThenSearcher_internal_step(t, r) ==
    IF r.panic THEN [s |-> t, m |-> None, panic |-> TRUE]
    ELSE IF ~IsSome(r.m) THEN [s |-> t, m |-> None, panic |-> FALSE]
    ELSE IF Unwrap(r.m)[1] >= t.index
    THEN [s |-> t, m |-> r.m, panic |-> FALSE]
    ELSE ThenSearcher_next_internal_match(t)

ThenSearcher_internal_pulled(s, r) ==
    ThenSearcher_internal_step([s EXCEPT !.first = r.s], r)

ThenSearcher_next_internal_match(s) ==
    ThenSearcher_internal_pulled(s, next_match(s.first))

ThenSearcher_any_step(s, st) ==
    Ret(IF IsSpan(st) THEN [s EXCEPT !.index = st.end] ELSE s, st)

ThenSearcher_reject_remaining(s) ==
    ThenSearcher_any_step(s, Reject(s.index, haystack_len(s)))

\* The arm of ThenSearcher::next where both searchers have a match, without
\* the test `end == tstart`.
ThenSearcher_fuse_any(s, start, end, tstart, tend) ==
    IF s.index < start
    THEN ThenSearcher_any_step([s EXCEPT !.next_match = Some(<<start, tend>>)],
                               Reject(s.index, start))
    ELSE ThenSearcher_any_step(
             [s EXCEPT !.debug_assert_failed = @ \/ (s.index # start)],
             Match(start, tend))

\* The arm of ThenSearcher::next where both searchers have a match:
\* (start, end) of first, (tstart, tend) of then.
ThenSearcher_fuse(s, start, end, tstart, tend) ==
    IF end = tstart
    THEN IF s.index < start
         THEN ThenSearcher_any_step([s EXCEPT !.next_match = Some(<<start, tend>>)],
                                    Reject(s.index, start))
         ELSE ThenSearcher_any_step(
                  [s EXCEPT !.debug_assert_failed = @ \/ (s.index # start)],
                  Match(start, tend))
    ELSE ThenSearcher_any_step(s, Reject(s.index, end))

\* `if let Some((tstart, tend)) = self.next_then_match(end)`, tm being what
\* next_then_match returned for the match (start, end) of self.first.
ThenSearcher_with_then(tm, start, end) ==
    IF tm.panic THEN Ret(tm.s, Panic)
    ELSE IF IsSome(tm.m)
    THEN ThenSearcher_fuse(tm.s, start, end, Unwrap(tm.m)[1], Unwrap(tm.m)[2])
    ELSE ThenSearcher_reject_remaining(tm.s)

\* `if let Some((start, end)) = self.next_internal_match()`, im being what
\* next_internal_match returned.
ThenSearcher_with_first(im) ==
    IF im.panic THEN Ret(im.s, Panic)
    ELSE IF IsSome(im.m)
    THEN ThenSearcher_with_then(ThenSearcher_next_then_match(im.s, Unwrap(im.m)[2]),
                                Unwrap(im.m)[1], Unwrap(im.m)[2])
    ELSE IF im.s.index < haystack_len(im.s)
    THEN ThenSearcher_reject_remaining(im.s)
    ELSE Ret(im.s, Panic)

ThenSearcher_next(s) ==
    IF IsSome(s.next_match)
    THEN ThenSearcher_any_step([s EXCEPT !.next_match = None],
                               Match(Unwrap(s.next_match)[1], Unwrap(s.next_match)[2]))
    ELSE IF s.index >= haystack_len(s)
    THEN Ret(s, Done)
    ELSE ThenSearcher_with_first(ThenSearcher_next_internal_match(s))

-----------------------------------------------------------------------------
(* adapters::peekable                                                       *)

PeekableSearcher(inner) == [kind |-> "peekable", searcher |-> inner, peeked |-> None]

\* `*self.peeked.get_or_insert_with(|| self.searcher.next())`, r being what
\* self.searcher.next() returned.
PeekableSearcher_insert(s, r) ==
    Ret([s EXCEPT !.searcher = r.s, !.peeked = Some(r.step)], r.step)

\* A peek() that hands on the step of self.searcher.next() and stores nothing.
PeekableSearcher_peek_uncached(s) ==
    Ret([s EXCEPT !.searcher = Child_next(s.searcher).s], Child_next(s.searcher).step)

PeekableSearcher_peek(s) ==
    IF IsSome(s.peeked)
    THEN Ret(s, Unwrap(s.peeked))
    ELSE PeekableSearcher_insert(s, Child_next(s.searcher))

PeekableSearcher_pass(s, r) == Ret([s EXCEPT !.searcher = r.s], r.step)

PeekableSearcher_next(s) ==
    IF IsSome(s.peeked)
    THEN Ret([s EXCEPT !.peeked = None], Unwrap(s.peeked))
    ELSE PeekableSearcher_pass(s, Child_next(s.searcher))

-----------------------------------------------------------------------------
(* adapters::repeat                                                         *)

RepeatSearcher(inner, min, max) ==
    [kind |-> "repeat", searcher |-> PeekableSearcher(inner), min |-> min, max |-> max]

\* What follows the loop with `matches <= self.min` in place of
\* `matches < self.min`.
RepeatSearcher_after_strict(s, ps, start, end, matches) ==
    Ret([s EXCEPT !.searcher = ps],
        IF matches <= s.min THEN Reject(start, end) ELSE Match(start, end))

\* What follows the loop without the test `matches < self.min`.
RepeatSearcher_after_unchecked(s, ps, start, end, matches) ==
    Ret([s EXCEPT !.searcher = ps], Match(start, end))

\* What RepeatSearcher::next returns after the loop (and when the peeked step
\* is no Match): ps is self.searcher.
RepeatSearcher_after(s, ps, start, end, matches) ==
    Ret([s EXCEPT !.searcher = ps],
        IF matches < s.min THEN Reject(start, end) ELSE Match(start, end))

\* The loop of RepeatSearcher::next without the `self.searcher.next()` that
\* consumes the peeked match.
RECURSIVE RepeatSearcher_loop_keep_peeked(_, _, _, _, _, _)

RepeatSearcher_peeked_keep(s, pk, start, end, matches, i) ==
    IF pk.step.tag = "Panic" THEN Ret([s EXCEPT !.searcher = pk.s], Panic)
    ELSE IF pk.step.tag = "Match"
    THEN IF pk.step.start = end
         THEN RepeatSearcher_loop_keep_peeked(s, pk.s, start,
                                              pk.step.end, matches + 1, i + 1)
         ELSE Ret([s EXCEPT !.searcher = pk.s],
                  IF matches <= s.max /\ matches >= s.min
                  THEN Match(start, end)
                  ELSE Reject(start, pk.step.start))
    ELSE RepeatSearcher_after(s, pk.s, start, end, matches)

RepeatSearcher_loop_keep_peeked(s, ps, start, end, matches, i) ==
    IF i >= s.max THEN RepeatSearcher_after(s, ps, start, end, matches)
    ELSE RepeatSearcher_peeked_keep(s, PeekableSearcher_peek(ps), start, end, matches, i)

\* The iterations i, i + 1, ... of `for _ in 1..self.max`, and what follows the
\* loop; ps is self.searcher.
RECURSIVE RepeatSearcher_loop(_, _, _, _, _, _)

\* The body of the loop, pk being what self.searcher.peek() returned.
RepeatSearcher_peeked(s, pk, start, end, matches, i) ==
    IF pk.step.tag = "Panic" THEN Ret([s EXCEPT !.searcher = pk.s], Panic)
    ELSE IF pk.step.tag = "Match"
    THEN IF pk.step.start = end
         THEN RepeatSearcher_loop(s, PeekableSearcher_next(pk.s).s, start,
                                  pk.step.end, matches + 1, i + 1)
         ELSE Ret([s EXCEPT !.searcher = pk.s],
                  IF matches <= s.max /\ matches >= s.min
                  THEN Match(start, end)
                  ELSE Reject(start, pk.step.start))
    ELSE RepeatSearcher_after(s, pk.s, start, end, matches)

RepeatSearcher_loop(s, ps, start, end, matches, i) ==
    IF i >= s.max THEN RepeatSearcher_after(s, ps, start, end, matches)
    ELSE RepeatSearcher_peeked(s, PeekableSearcher_peek(ps), start, end, matches, i)

\* `match self.searcher.next()` with a loop `for _ in 0..self.max`.
RepeatSearcher_first_from_zero(s, r) ==
    IF r.step.tag = "Match"
    THEN RepeatSearcher_loop(s, r.s, r.step.start, r.step.end, 1, 0)
    ELSE Ret([s EXCEPT !.searcher = r.s], r.step)

\* `match self.searcher.next()`, r being what it returned.
RepeatSearcher_first(s, r) ==
    IF r.step.tag = "Match"
    THEN RepeatSearcher_loop(s, r.s, r.step.start, r.step.end, 1, 1)
    ELSE Ret([s EXCEPT !.searcher = r.s], r.step)

RepeatSearcher_next(s) == RepeatSearcher_first(s, PeekableSearcher_next(s.searcher))

-----------------------------------------------------------------------------
(* adapters::greedy_reject (the module behind PatternExt::simplify)         *)

SimplifyingSearcher(inner) ==
    [kind |-> "simplify", searcher |-> inner, index |-> 0, next_match |-> None,
     debug_assert_failed |-> FALSE]

SimplifyingSearcher_any_step(s, st) ==
    Ret(IF IsSpan(st) THEN [s EXCEPT !.index = st.end] ELSE s, st)

\* The body of `if let Some((start, end)) = self.searcher.next_match()` that
\* keeps the match behind a Reject as (self.index, end).
SimplifyingSearcher_found_from_cursor(t, r) ==
    IF r.panic THEN Ret(t, Panic)
    ELSE IF IsSome(r.m)
    THEN IF t.index < Unwrap(r.m)[1]
         THEN SimplifyingSearcher_any_step(
                  [t EXCEPT !.next_match = Some(<<t.index, Unwrap(r.m)[2]>>)],
                  Reject(t.index, Unwrap(r.m)[1]))
         ELSE SimplifyingSearcher_any_step(
                  [t EXCEPT !.debug_assert_failed = @ \/ (t.index # Unwrap(r.m)[1])],
                  Match(Unwrap(r.m)[1], Unwrap(r.m)[2]))
    ELSE Ret(t, Done)

\* The same without `self.next_match = Some((start, end))` before the Reject.
SimplifyingSearcher_found_unbuffered(t, r) ==
    IF r.panic THEN Ret(t, Panic)
    ELSE IF IsSome(r.m)
    THEN IF t.index < Unwrap(r.m)[1]
         THEN SimplifyingSearcher_any_step(t, Reject(t.index, Unwrap(r.m)[1]))
         ELSE SimplifyingSearcher_any_step(
                  [t EXCEPT !.debug_assert_failed = @ \/ (t.index # Unwrap(r.m)[1])],
                  Match(Unwrap(r.m)[1], Unwrap(r.m)[2]))
    ELSE Ret(t, Done)

\* `if let Some((start, end)) = self.searcher.next_match()`: t is self after
\* the call that returned r.
SimplifyingSearcher_found(t, r) ==
    IF r.panic THEN Ret(t, Panic)
    ELSE IF IsSome(r.m)
    THEN IF t.index < Unwrap(r.m)[1]
         THEN SimplifyingSearcher_any_step(
                  [t EXCEPT !.next_match = r.m],
                  Reject(t.index, Unwrap(r.m)[1]))
         ELSE SimplifyingSearcher_any_step(
                  [t EXCEPT !.debug_assert_failed = @ \/ (t.index # Unwrap(r.m)[1])],
                  Match(Unwrap(r.m)[1], Unwrap(r.m)[2]))
    ELSE Ret(t, Done)

SimplifyingSearcher_pulled(s, r) ==
    SimplifyingSearcher_found([s EXCEPT !.searcher = r.s], r)

SimplifyingSearcher_next(s) ==
    IF IsSome(s.next_match)
    THEN Ret([s EXCEPT !.next_match = None],
             Match(Unwrap(s.next_match)[1], Unwrap(s.next_match)[2]))
    ELSE SimplifyingSearcher_pulled(s, next_match(s.searcher))

-----------------------------------------------------------------------------
(* adapters::limit                                                          *)

LimitSearcher(inner, n) == [kind |-> "limit", searcher |-> inner, remaining |-> n]

\* An is_exhausted() that never reports exhaustion.
LimitSearcher_is_exhausted_never(s) == FALSE

LimitSearcher_is_exhausted(s) == s.remaining = 0

\* The arms of LimitSearcher::next without `self.remaining -= 1`.
LimitSearcher_step_no_decrement(s, r) ==
    IF r.step.tag = "Match"
    THEN IF LimitSearcher_is_exhausted(s)
         THEN Ret([s EXCEPT !.searcher = r.s], Reject(r.step.start, r.step.end))
         ELSE Ret([s EXCEPT !.searcher = r.s], Match(r.step.start, r.step.end))
    ELSE Ret([s EXCEPT !.searcher = r.s], r.step)

\* `match self.searcher.next()`, r being what it returned.
LimitSearcher_step(s, r) ==
    IF r.step.tag = "Match"
    THEN IF LimitSearcher_is_exhausted(s)
         THEN Ret([s EXCEPT !.searcher = r.s], Reject(r.step.start, r.step.end))
         ELSE Ret([s EXCEPT !.searcher = r.s, !.remaining = @ - 1],
                  Match(r.step.start, r.step.end))
    ELSE Ret([s EXCEPT !.searcher = r.s], r.step)

LimitSearcher_next(s) == LimitSearcher_step(s, Child_next(s.searcher))

-----------------------------------------------------------------------------
(* adapters::skip                                                           *)

SkipSearcher(inner, n) == [kind |-> "skip", searcher |-> inner, n |-> n]

\* The body of SkipSearcher::next without `self.n -= 1`.
SkipSearcher_step_no_decrement(s, r) ==
    IF r.step.tag = "Match"
    THEN IF s.n > 0
         THEN Ret([s EXCEPT !.searcher = r.s], Reject(r.step.start, r.step.end))
         ELSE Ret([s EXCEPT !.searcher = r.s], Match(r.step.start, r.step.end))
    ELSE Ret([s EXCEPT !.searcher = r.s], r.step)

\* `if let SearchStep::Match(start, end) = step`, r being what
\* self.searcher.next() returned.
SkipSearcher_step(s, r) ==
    IF r.step.tag = "Match"
    THEN IF s.n > 0
         THEN Ret([s EXCEPT !.searcher = r.s, !.n = @ - 1],
                  Reject(r.step.start, r.step.end))
         ELSE Ret([s EXCEPT !.searcher = r.s], Match(r.step.start, r.step.end))
    ELSE Ret([s EXCEPT !.searcher = r.s], r.step)

SkipSearcher_next(s) == SkipSearcher_step(s, Child_next(s.searcher))

-----------------------------------------------------------------------------
(* adapters::fused                                                          *)

FusedSearcher(inner) ==
    [kind |-> "fused", searcher |-> inner, exhausted |-> FALSE, rexhausted |-> FALSE]

\* `if step == SearchStep::Done { self.exhausted = true; }`, r being what
\* self.searcher.next() returned.
FusedSearcher_step(s, r) ==
    Ret([s EXCEPT !.searcher = r.s, !.exhausted = @ \/ (r.step = Done)], r.step)

\* FusedSearcher::next without `if self.exhausted { return SearchStep::Done; }`.
FusedSearcher_next_unfused(s) == FusedSearcher_step(s, Child_next(s.searcher))

FusedSearcher_next(s) ==
    IF s.exhausted THEN Ret(s, Done)
    ELSE FusedSearcher_step(s, Child_next(s.searcher))

-----------------------------------------------------------------------------
(* adapters::indexed                                                        *)

IndexedSearcher(inner) == [kind |-> "indexed", searcher |-> inner, index |-> 0]

\* The body of IndexedSearcher::next recording the start of the step.
IndexedSearcher_step_start(s, r) ==
    Ret([s EXCEPT !.searcher = r.s,
                  !.index = IF IsSpan(r.step) THEN r.step.start ELSE @], r.step)

\* `if let Match(_, end) | Reject(_, end) = step { self.index = end; }`, r
\* being what self.searcher.next() returned.
IndexedSearcher_step(s, r) ==
    Ret([s EXCEPT !.searcher = r.s,
                  !.index = IF IsSpan(r.step) THEN r.step.end ELSE @], r.step)

IndexedSearcher_next(s) == IndexedSearcher_step(s, Child_next(s.searcher))

-----------------------------------------------------------------------------
(* adapters::limited                                                        *)

\* LimitedSearcher::new: `searcher.indexed().fused()` and the limit.
LimitedSearcher(inner, n) ==
    [kind |-> "limited", searcher |-> FusedSearcher(IndexedSearcher(inner)),
     remaining |-> n]

\* FusedSearcher::next of the FusedSearcher<IndexedSearcher<S>> it holds.
LimitedSearcher_searcher_next(f) ==
    IF f.exhausted THEN Ret(f, Done)
    ELSE FusedSearcher_step(f, IndexedSearcher_next(f.searcher))

\* FusedSearcher::exhaust: `while self.next() != SearchStep::Done {}`.
RECURSIVE FusedSearcher_exhaust(_)

FusedSearcher_exhaust_loop(r) ==
    IF r.step = Done THEN r.s ELSE FusedSearcher_exhaust(r.s)

FusedSearcher_exhaust(f) == FusedSearcher_exhaust_loop(LimitedSearcher_searcher_next(f))

\* LimitedSearcher::index, of the FusedSearcher<IndexedSearcher<S>> f.
LimitedSearcher_index(f) == f.searcher.index

\* `if self.index() < self.haystack().len()` and its two arms, f being
\* self.searcher after its next() and x what exhaust() leaves of it.
LimitedSearcher_cut(s, f, x, start) ==
    IF LimitedSearcher_index(f) < haystack_len(f.searcher.searcher)
    THEN Ret([s EXCEPT !.searcher = x], Reject(start, LimitedSearcher_index(x)))
    ELSE Ret([s EXCEPT !.searcher = f], Done)

\* The body of LimitedSearcher::next after `let step = self.searcher.next()`,
\* r being what that call returned.
LimitedSearcher_step(s, r) ==
    IF r.step.tag = "Match"
    THEN IF s.remaining >= 1
         THEN Ret([s EXCEPT !.searcher = r.s, !.remaining = @ - 1],
                  Match(r.step.start, r.step.end))
         ELSE LimitedSearcher_cut(s, r.s, FusedSearcher_exhaust(r.s), r.step.start)
    ELSE Ret([s EXCEPT !.searcher = r.s], r.step)

LimitedSearcher_next(s) == LimitedSearcher_step(s, LimitedSearcher_searcher_next(s.searcher))

-----------------------------------------------------------------------------
(* Searcher::next of the searcher under test, by its kind (a NotSearcher    *)
(* under test is the outer one of AndPattern, over an OrSearcher, or the    *)
(* NotSearcher of a child).                                                 *)

next(s) ==
    CASE s.kind = "or" -> OrSearcher_next(s)
      [] s.kind = "not" ->
             NotSearcher_next(s, IF s.inner.kind = "or" THEN OrSearcher_next(s.inner)
                                 ELSE Leaf_next(s.inner))
      [] s.kind = "then" -> ThenSearcher_next(s)
      [] s.kind = "repeat" -> RepeatSearcher_next(s)
      [] s.kind = "simplify" -> SimplifyingSearcher_next(s)
      [] s.kind = "limit" -> LimitSearcher_next(s)
      [] s.kind = "skip" -> SkipSearcher_next(s)
      [] s.kind = "fused" -> FusedSearcher_next(s)
      [] s.kind = "indexed" -> IndexedSearcher_next(s)
      [] s.kind = "limited" -> LimitedSearcher_next(s)

\* Searcher::next_match of the searcher under test.
RECURSIVE Searcher_next_match(_)

Searcher_next_match_step(r) ==
    CASE r.step.tag = "Match" ->
             [s |-> r.s, m |-> Some(<<r.step.start, r.step.end>>), panic |-> FALSE]
      [] r.step.tag = "Done" -> [s |-> r.s, m |-> None, panic |-> FALSE]
      [] r.step.tag = "Panic" -> [s |-> r.s, m |-> None, panic |-> TRUE]
      [] OTHER -> Searcher_next_match(r.s)

Searcher_next_match(s) == Searcher_next_match_step(next(s))

haystack_len(s) ==
    CASE s.kind = "leaf" -> s.len
      [] s.kind = "not" -> haystack_len(s.inner)
      [] s.kind = "or" -> haystack_len(s.a)
      [] s.kind = "then" -> haystack_len(s.first)
      [] s.kind = "peekable" -> haystack_len(s.searcher)
      [] s.kind = "repeat" -> haystack_len(s.searcher)
      [] s.kind = "simplify" -> haystack_len(s.searcher)
      [] s.kind \in {"limit", "skip", "fused", "indexed", "limited"} -> haystack_len(s.searcher)
      [] s.kind = "str" -> s.len

-----------------------------------------------------------------------------
(* debug_assert_eq!: a build with debug assertions panics where it fails, a *)
(* release build goes on.  The searchers record a failed assertion in       *)
(* debug_assert_failed and go on; the harness gives a call during which an  *)
(* assertion failed for the first time both outcomes.                       *)

RECURSIVE AssertFailed(_)
AssertFailed(s) ==
    CASE s.kind = "or" -> s.debug_assert_failed \/ AssertFailed(s.a) \/ AssertFailed(s.b)
      [] s.kind = "then" -> s.debug_assert_failed \/ AssertFailed(s.first) \/ AssertFailed(s.then)
      [] s.kind = "simplify" -> s.debug_assert_failed \/ AssertFailed(s.searcher)
      [] s.kind = "not" -> AssertFailed(s.inner)
      [] s.kind \in {"peekable", "repeat", "limit", "skip", "fused", "indexed"} ->
             AssertFailed(s.searcher)
      [] OTHER -> FALSE

\* The outcomes of a call that went from s to r.s and returned r.step.
Builds(s, r) ==
    IF AssertFailed(r.s) /\ ~AssertFailed(s) THEN {r, Ret(r.s, Panic)} ELSE {r}

-----------------------------------------------------------------------------
(* assert_integrity (fuzz/fuzz_targets/utils.rs): poll next() until it      *)
(* returns Done, then call it three more times.                             *)

\* `for _ in 0..3` after the loop.
AfterDoneCalls == 3

NoSearcher == [kind |-> "none"]

InitHarness ==
    /\ step = NoStep
    /\ reference_step = NoStep
    /\ trace = <<>>
    /\ last_end = 0
    /\ dones = 0
    /\ pc = "loop"

\* One iteration of `while let Match | Reject = searcher.next()`.
Poll ==
    /\ pc = "loop"
    /\ \E r \in Builds(searcher, next(searcher)) :
       /\ searcher' = r.s
       /\ step' = r.step
       /\ trace' = IF IsSpan(r.step) THEN Append(trace, r.step) ELSE trace
       /\ last_end' = IF IsSpan(r.step) THEN r.step.end ELSE last_end
       /\ pc' = IF IsSpan(r.step) THEN "loop"
                ELSE IF r.step.tag = "Done" THEN "done" ELSE "panicked"
    /\ UNCHANGED <<reference, reference_step, dones>>

\* k more calls of next(): the searcher after them, how many of them returned
\* Done, and Done or else the first step returned that is not Done.
RECURSIVE CallAgain(_, _)
CallAgain(s, k) ==
    IF k = 0 THEN [s |-> s, step |-> Done, dones |-> 0]
    ELSE LET r == next(s) IN
         IF r.step.tag = "Panic" THEN [s |-> r.s, step |-> r.step, dones |-> 0]
         ELSE LET rest == CallAgain(r.s, k - 1) IN
              [s |-> rest.s,
               step |-> IF r.step.tag # "Done" THEN r.step ELSE rest.step,
               dones |-> rest.dones + (IF r.step.tag = "Done" THEN 1 ELSE 0)]

\* `for _ in 0..3 { assert_eq!(searcher.next(), SearchStep::Done) }`.
PollDone ==
    /\ pc = "done"
    /\ LET r == CallAgain(searcher, AfterDoneCalls) IN
       /\ searcher' = r.s
       /\ step' = r.step
       /\ dones' = r.dones
       /\ pc' = "checked"
    /\ UNCHANGED <<reference, reference_step, trace, last_end>>

Next == Poll \/ PollDone

-----------------------------------------------------------------------------
(* assert_searcher_eq! (fuzz/fuzz_targets/utils.rs): call next() on both    *)
(* searchers until the first one returns Done; assert_eq! fails at the      *)
(* first call where the two steps differ.                                   *)

Lockstep ==
    /\ pc = "loop"
    /\ \E r \in Builds(searcher, next(searcher)), o \in Builds(reference, next(reference)) :
       /\ searcher' = r.s
       /\ reference' = o.s
       /\ step' = r.step
       /\ reference_step' = o.step
       /\ trace' = IF IsSpan(r.step) THEN Append(trace, r.step) ELSE trace
       /\ last_end' = IF IsSpan(r.step) THEN r.step.end ELSE last_end
       /\ pc' = IF r.step.tag = "Panic" \/ o.step.tag = "Panic" THEN "panicked"
                ELSE IF r.step # o.step THEN "failed"
                ELSE IF r.step.tag = "Done" THEN "checked" ELSE "loop"
    /\ UNCHANGED dones

NextLockstep == Lockstep

\* The steps of a trace are well-formed, begin at 0 and leave no gap and no overlap.
Contiguous(tr) ==
    \A i \in 1..Len(tr) :
        /\ tr[i].start <= tr[i].end
        /\ tr[i].start = (IF i = 1 THEN 0 ELSE tr[i - 1].end)

-----------------------------------------------------------------------------
(* LOrPattern / ROrPattern over two arbitrary children.                     *)

InitOr ==
    /\ \E n \in 0..MaxLen :
       \E sa \in PairChildren(n), sb \in PairChildren(n),
          f \in {"Left", "Right"} :
            searcher = OrSearcher(Leaf(sa, n), Leaf(sb, n), f)
    /\ reference = NoSearcher
    /\ InitHarness

SpecOr == InitOr /\ [][Next]_vars

-----------------------------------------------------------------------------
(* ThenPattern over two arbitrary children.                                 *)

InitThen ==
    /\ \E n \in 0..MaxLen :
       \E sa \in PairChildren(n), sb \in PairChildren(n) :
            searcher = ThenSearcher(Leaf(sa, n), Leaf(sb, n))
    /\ reference = NoSearcher
    /\ InitHarness

SpecThen == InitThen /\ [][Next]_vars

-----------------------------------------------------------------------------
(* RepeatPattern over an arbitrary child, for all bounds min <= max.        *)

\* Largest repetition bound explored.
MaxRepeat == 3

InitRepeat ==
    /\ \E n \in 0..MaxLen :
       \E sa \in Partitions(n), max \in 0..MaxRepeat :
       \E min \in 0..max :
            searcher = RepeatSearcher(Leaf(sa, n), min, max)
    /\ reference = NoSearcher
    /\ InitHarness

SpecRepeat == InitRepeat /\ [][Next]_vars

-----------------------------------------------------------------------------
(* SimplifyingPattern over an arbitrary child.                              *)

InitSimplify ==
    /\ \E n \in 0..MaxLen :
       \E sa \in Partitions(n) :
            searcher = SimplifyingSearcher(Leaf(sa, n))
    /\ reference = NoSearcher
    /\ InitHarness

SpecSimplify == InitSimplify /\ [][Next]_vars

-----------------------------------------------------------------------------
(* fuzz_then: x.then(y) for two chars against the literal "xy", compared by *)
(* assert_matches_eq! (fuzz/fuzz_targets/utils.rs).                         *)

\* Longest haystack explored, in chars.
MaxHay == 6

\* "c" stands for a char of two bytes.
Chars == {"a", "b", "c"}

len_utf8(c) == IF c = "c" THEN 2 ELSE 1

Haystacks == UNION {[1..n -> Chars] : n \in 0..MaxHay}

\* The byte offset of the i-th char of haystack h (of its end for i = Len(h) + 1).
RECURSIVE Offset(_, _)
Offset(h, i) == IF i = 1 THEN 0 ELSE Offset(h, i - 1) + len_utf8(h[i - 1])

\* The searcher of a char: one step for each char of the haystack.
CharSearcher(h, c) ==
    Leaf([i \in 1..Len(h) |->
             IF h[i] = c THEN Match(Offset(h, i), Offset(h, i + 1))
                         ELSE Reject(Offset(h, i), Offset(h, i + 1))],
         Offset(h, Len(h) + 1))

\* The occurrences of the literal "xy" from the i-th char on, leftmost first
\* and not overlapping.
RECURSIVE StrMatches(_, _, _, _)
StrMatches(h, x, y, i) ==
    IF i + 1 > Len(h) THEN <<>>
    ELSE IF h[i] = x /\ h[i + 1] = y
    THEN <<<<Offset(h, i), Offset(h, i + 2)>>>> \o StrMatches(h, x, y, i + 2)
    ELSE StrMatches(h, x, y, i + 1)

StrSearcher(h, x, y) ==
    [kind |-> "str", matches |-> StrMatches(h, x, y, 1), pos |-> 0,
     len |-> Offset(h, Len(h) + 1)]

\* The outcomes of a next_match() that went from s to r.s.
BuildsMatch(s, r) ==
    IF AssertFailed(r.s) /\ ~AssertFailed(s) THEN {r, [r EXCEPT !.panic = TRUE]} ELSE {r}

\* The result of next_match() as a step: Some((start, end)) as Match, None as Done.
AsStep(r) ==
    IF r.panic THEN Panic
    ELSE IF IsSome(r.m) THEN Match(Unwrap(r.m)[1], Unwrap(r.m)[2]) ELSE Done

\* `assert_eq!(f, $next.next_match())` for the result f of $first.next_match().
AssertNextMatch(f, nextpc) ==
    \E r \in BuildsMatch(searcher, Searcher_next_match(searcher)) :
       /\ reference' = f.s
       /\ reference_step' = AsStep(f)
       /\ searcher' = r.s
       /\ step' = AsStep(r)
       /\ trace' = IF AsStep(r).tag = "Match" THEN Append(trace, AsStep(r)) ELSE trace
       /\ last_end' = IF AsStep(r).tag = "Match" THEN AsStep(r).end ELSE last_end
       /\ pc' = IF AsStep(r) = Panic THEN "panicked"
                ELSE IF AsStep(r) # AsStep(f) THEN "failed" ELSE nextpc

\* `let very_first_step = $first.next_match()` and its assert_eq!.
MatchesFirst ==
    /\ pc = "first"
    /\ AssertNextMatch(StrSearcher_next_match(reference), "while")
    /\ UNCHANGED dones

\* One evaluation of `while let Some(first_step) = $first.next_match()`, with
\* the body of the loop when there is one more match.
MatchesWhile ==
    /\ pc = "while"
    /\ LET f == StrSearcher_next_match(reference) IN
       IF IsSome(f.m)
       THEN AssertNextMatch(f, "while")
       ELSE /\ reference' = f.s
            /\ reference_step' = AsStep(f)
            /\ pc' = "last"
            /\ UNCHANGED <<searcher, step, trace, last_end>>
    /\ UNCHANGED dones

\* `let very_last_step = $first.next_match()` and its assert_eq!.
MatchesLast ==
    /\ pc = "last"
    /\ AssertNextMatch(StrSearcher_next_match(reference), "checked")
    /\ UNCHANGED dones

NextMatches == MatchesFirst \/ MatchesWhile \/ MatchesLast

InitThenStr ==
    /\ \E h \in Haystacks, x \in Chars, y \in Chars :
            /\ searcher = ThenSearcher(CharSearcher(h, x), CharSearcher(h, y))
            /\ reference = StrSearcher(h, x, y)
    /\ step = NoStep
    /\ reference_step = NoStep
    /\ trace = <<>>
    /\ last_end = 0
    /\ dones = 0
    /\ pc = "first"

SpecThenStr == InitThenStr /\ [][NextMatches]_vars

-----------------------------------------------------------------------------
(* fuzz_or: P.lor(P) against P.ror(P), in lockstep.                         *)

Opposite(f) == IF f = "Left" THEN "Right" ELSE "Left"

InitOrSame ==
    /\ \E n \in 0..MaxLen :
       \E sp \in Partitions(n), f \in {"Left", "Right"} :
            /\ searcher = OrSearcher(Leaf(sp, n), Leaf(sp, n), f)
            /\ reference = OrSearcher(Leaf(sp, n), Leaf(sp, n), Opposite(f))
    /\ InitHarness

SpecOrSame == InitOrSame /\ [][NextLockstep]_vars

-----------------------------------------------------------------------------
(* fuzz_and: assert_integrity of P.and(P); reference is the searcher of P.  *)

NorSearcher(a, b) == NotSearcher(OrSearcher(a, b, "Left"))

AndSearcher(a, b) == NorSearcher(NotSearcher(a), NotSearcher(b))

InitAnd ==
    /\ \E n \in 0..MaxLen :
       \E sp \in Partitions(n) :
            /\ searcher = AndSearcher(Leaf(sp, n), Leaf(sp, n))
            /\ reference = Leaf(sp, n)
    /\ InitHarness

SpecAnd == InitAnd /\ [][Next]_vars

-----------------------------------------------------------------------------
(* The partition invariant of the combinators                               *)

\* What assert_integrity checks of the steps returned so far, and what the
\* partition invariant adds to it: the steps end at the length of the haystack
\* and only Done follows them.
PartitionInvariant ==
    /\ Contiguous(trace)
    /\ pc \in {"done", "checked"} => last_end = haystack_len(searcher)
    /\ pc = "checked" => dones = AfterDoneCalls

\* No call has panicked and no debug assertion has failed.
NoPanic == pc # "panicked" /\ ~AssertFailed(searcher)

\* C1: the steps of a.lor(b) and of a.ror(b) over any two children that each
\* respect the partition invariant have start <= end, begin at 0, are
\* contiguous, end at the length of the haystack and are followed only by Done.
C1_OrPartition == searcher.kind = "or" => PartitionInvariant

\* C2: the steps of a.then(b) respect the partition invariant, and the debug
\* assertion of ThenSearcher::next (cursor = start of a directly emitted
\* Match) never fails.
C2_ThenPartition == PartitionInvariant /\ NoPanic

\* A run of Then over a haystack of length >= 3 that is complete, whose first
\* two steps are fused matches emitted directly, the second one at the cursor
\* the first one left.
C2_Witness ==
    /\ searcher.kind = "then" /\ pc = "checked"
    /\ haystack_len(searcher) >= 3
    /\ Len(trace) >= 2
    /\ trace[1].tag = "Match" /\ trace[2].tag = "Match"
    /\ trace[1].end > trace[1].start /\ trace[2].end > trace[2].start

\* C3: the steps of repeat(min, max) with min <= max respect the partition
\* invariant.
C3_RepeatPartition ==
    searcher.min <= searcher.max => PartitionInvariant /\ NoPanic

\* A complete run of repeat(min, max), 0 < min < max, that has returned a Match
\* fused from several matches of the child and a Reject made of a run of the
\* child that was shorter than min.
C3_Witness ==
    LET child == searcher.searcher.searcher.steps
        Steps(tr) == {tr[i] : i \in 1..Len(tr)}
    IN  /\ searcher.kind = "repeat" /\ pc = "checked"
        /\ 0 < searcher.min /\ searcher.min < searcher.max
        /\ \E st \in Steps(trace) :
              st.tag = "Match" /\ st \notin Steps(child)
        /\ \E st \in Steps(trace) :
              st.tag = "Reject" /\ Match(st.start, st.end) \in Steps(child)

\* C4: the steps of simplify() respect the partition invariant; each gap
\* between two matches and the tail after the last match is one Reject, and
\* the step after a buffered Match starts where that Match ends.
C4_SimplifyPartition == searcher.kind = "simplify" => PartitionInvariant

-----------------------------------------------------------------------------
(* The tie-break of Or                                                      *)

\* Two ranges that intersect or are equal.
OrConflict(pa, pb) == (Max(pa[1], pb[1]) < Min(pa[2], pb[2])) \/ pa = pb

\* The searcher is about to pull a match of each child.
OrPulls ==
    /\ searcher.kind = "or" /\ pc = "loop"
    /\ ~IsSome(searcher.next_match)
    /\ searcher.index < haystack_len(searcher)

\* C5: when the pending matches of A and of B intersect or are equal, the call
\* emits the range of A under lor and the range of B under ror (as a Match, or
\* buffered behind the Reject that leads to it), caches nothing, and has
\* advanced both children, so that the next call pulls a fresh match of each.
C5_OrTieBreak ==
    OrPulls =>
        LET nm == OrSearcher_next_matches(searcher) IN
        (IsSome(nm.a) /\ IsSome(nm.b) /\ OrConflict(Unwrap(nm.a), Unwrap(nm.b))) =>
            LET sel == IF searcher.f = "Left" THEN Unwrap(nm.a) ELSE Unwrap(nm.b)
            IN  \A o \in Builds(searcher, OrSearcher_next(searcher)) :
                    /\ \/ o.step = Match(sel[1], sel[2])
                       \/ /\ o.step = Reject(searcher.index, sel[1])
                          /\ o.s.next_match = Some(sel)
                    /\ o.s.cached_match = None
                    /\ o.s.a = nm.s.a /\ o.s.b = nm.s.b

\* ror has returned steps and now meets two pending matches that overlap
\* without being equal.
C5_Witness ==
    /\ OrPulls /\ searcher.f = "Right" /\ Len(trace) > 0
    /\ LET nm == OrSearcher_next_matches(searcher) IN
       /\ IsSome(nm.a) /\ IsSome(nm.b)
       /\ OrConflict(Unwrap(nm.a), Unwrap(nm.b))
       /\ Unwrap(nm.a) # Unwrap(nm.b)

-----------------------------------------------------------------------------
(* P.lor(P), P.ror(P) and P.and(P) against P                                *)

\* C6: the searchers of P.lor(P) and of P.ror(P), stepped in lockstep until
\* Done, return the same step (tag, start and end) at every call.
C6_LorRorLockstep ==
    searcher.kind = "or" =>
        /\ pc \notin {"failed", "panicked"}
        /\ step = reference_step

\* A lockstep run of one Or against the other over a haystack of length >= 2
\* that has reached Done after at least two matches and a Reject.
C6_Witness ==
    /\ searcher.kind = "or" /\ reference.kind = "or"
    /\ searcher.f # reference.f
    /\ pc = "checked" /\ step = Done
    /\ Len(MatchesOf(trace)) >= 2 /\ Len(trace) > Len(MatchesOf(trace))

\* C7: the Match steps of P.lor(P) and of P.ror(P) are the matches of P alone,
\* in order and with the same bounds, zero-length matches and a match that ends
\* at the length of the haystack included.
C7_OrSameMatches ==
    (searcher.kind = "or" /\ pc = "checked") =>
        MatchesOf(trace) = MatchesOf(searcher.a.steps)

\* C8: the Match steps of P.and(P) are the matches of P alone, in order and
\* with the same bounds, also when P has two adjacent matches.
C8_AndSameMatches ==
    (searcher.kind = "not" /\ pc \in {"done", "checked"}) =>
        MatchesOf(trace) = MatchesOf(reference.steps)

-----------------------------------------------------------------------------
(* Then                                                                     *)

\* C9: for two chars x and y, next_match() on x.then(y) returns the matches of
\* the literal "xy" one after the other, and None when they are exhausted, also
\* when x = y and the haystack has runs of that char.
C9_ThenIsLiteral ==
    reference.kind = "str" =>
        /\ pc \notin {"failed", "panicked"}
        /\ pc = "checked" => MatchesOf(trace) = reference.matches

\* A complete comparison with x = y where the literal has two matches or more.
C9_Witness ==
    /\ reference.kind = "str" /\ pc = "checked"
    /\ searcher.first.steps = searcher.then.steps
    /\ Len(reference.matches) >= 2
    /\ Len(trace) = Len(reference.matches)

\* The matches among the steps of a child.
ChildMatches(child) == {st \in {child.steps[i] : i \in 1..Len(child.steps)} : st.tag = "Match"}

\* C10: every Match(s, e) returned by Then(A, B) is made of a match (s, m) of
\* A and a match (m, e) of B; a match of A that no match of B follows at once
\* makes no Match.
C10_ThenFusion ==
    searcher.kind = "then" =>
        \A i \in 1..Len(trace) :
            trace[i].tag = "Match" =>
                \E ma \in ChildMatches(searcher.first), mb \in ChildMatches(searcher.then) :
                    /\ ma.start = trace[i].start
                    /\ ma.end = mb.start
                    /\ mb.end = trace[i].end

\* A complete run of Then that returned a Match made of two non-empty matches
\* and in which A has a match that starts no Match of Then.
C10_Witness ==
    /\ searcher.kind = "then" /\ pc = "checked"
    /\ \E i \in 1..Len(trace) :
          /\ trace[i].tag = "Match"
          /\ \E ma \in ChildMatches(searcher.first) :
                ma.start = trace[i].start /\ ma.start < ma.end /\ ma.end < trace[i].end
    /\ \E ma \in ChildMatches(searcher.first) :
          \A i \in 1..Len(trace) :
              ~(trace[i].tag = "Match" /\ trace[i].start = ma.start)

-----------------------------------------------------------------------------
(* The matches Repeat fuses                                                 *)

\* The steps of the child of the RepeatSearcher under test.
RepeatChild == searcher.searcher.searcher.steps

\* How many steps of its child the RepeatSearcher under test has consumed: a
\* step that was peeked and not yet taken is pulled, not consumed.
RepeatConsumed ==
    searcher.searcher.searcher.pos
    - (IF IsSome(searcher.searcher.peeked) /\ IsSpan(Unwrap(searcher.searcher.peeked))
       THEN 1 ELSE 0)

\* The k steps of the child consumed last are matches, each starting where
\* the one before it ended, and st spans from the first to the last of them.
FusionOf(st, k) ==
    /\ 1 <= k /\ k <= RepeatConsumed
    /\ \A j \in (RepeatConsumed - k + 1)..RepeatConsumed :
          /\ RepeatChild[j].tag = "Match"
          /\ j > RepeatConsumed - k + 1 => RepeatChild[j].start = RepeatChild[j - 1].end
    /\ RepeatChild[RepeatConsumed - k + 1].start = st.start
    /\ RepeatChild[RepeatConsumed].end = st.end

\* C11: for all bounds min <= max (min = 0 and max = 0 included), a Match
\* returned by Repeat(min, max) is the fusion of k consecutive matches of the
\* child, each starting where the previous one ended, with min <= k <= max.
C11_RepeatFusion ==
    (searcher.kind = "repeat" /\ pc = "loop" /\ step.tag = "Match") =>
        \E k \in searcher.min..searcher.max : FusionOf(step, k)

\* C12: Repeat(1, 1) is the identity: every next() returns the step of the
\* child, and consumes one step of the child.
C12_RepeatIdentity ==
    (searcher.kind = "repeat" /\ searcher.min = 1 /\ searcher.max = 1) =>
        /\ trace = SubSeq(RepeatChild, 1, Len(trace))
        /\ searcher.searcher.searcher.pos = Len(trace)
        /\ ~IsSome(searcher.searcher.peeked)
        /\ pc \in {"done", "checked"} => Len(trace) = Len(RepeatChild) /\ step = Done
        /\ pc # "panicked"

\* A complete run of Repeat(1, 1) over a child that returned two matches in a
\* row and a Reject.
C12_Witness ==
    /\ searcher.kind = "repeat" /\ searcher.min = 1 /\ searcher.max = 1
    /\ pc = "checked"
    /\ Len(trace) = 3
    /\ trace[1].tag = "Match" /\ trace[2].tag = "Match" /\ trace[3].tag = "Reject"

-----------------------------------------------------------------------------
(* LimitPattern and SkipPattern over an arbitrary child                     *)

\* Largest count given to limit() and skip().
MaxCount == 3

\* reference keeps the searcher as into_searcher built it.
InitLimit ==
    /\ \E n \in 0..MaxLen :
       \E sa \in Partitions(n), k \in 0..MaxCount :
            searcher = LimitSearcher(Leaf(sa, n), k)
    /\ reference = searcher
    /\ InitHarness

SpecLimit == InitLimit /\ [][Next]_vars

InitSkip ==
    /\ \E n \in 0..MaxLen :
       \E sa \in Partitions(n), k \in 0..MaxCount :
            searcher = SkipSearcher(Leaf(sa, n), k)
    /\ reference = searcher
    /\ InitHarness

SpecSkip == InitSkip /\ [][Next]_vars

\* How many of the first i steps are matches.
MatchCount(steps, i) == Cardinality({j \in 1..i : steps[j].tag = "Match"})

\* The searcher under test has returned one step for every step its child
\* returned, with the same start and end.
StepForStep ==
    /\ Len(trace) = searcher.searcher.pos
    /\ \A i \in 1..Len(trace) :
          /\ trace[i].start = searcher.searcher.steps[i].start
          /\ trace[i].end = searcher.searcher.steps[i].end
    /\ pc \in {"done", "checked"} => Len(trace) = Len(searcher.searcher.steps)
    /\ pc = "checked" => dones = AfterDoneCalls
    /\ pc # "panicked"

\* C13: Limit(n) returns one step per step of the child with the same start
\* and end; the i-th Match of the child is a Match when i <= n and a Reject
\* when i > n, a Reject stays a Reject and Done stays Done; so at most n
\* matches are returned, none for n = 0, and remaining counts down to 0 and
\* stays there.
C13_LimitSteps ==
    searcher.kind = "limit" =>
        /\ StepForStep
        /\ \A i \in 1..Len(trace) :
              trace[i].tag =
                  IF /\ searcher.searcher.steps[i].tag = "Match"
                     /\ MatchCount(searcher.searcher.steps, i) <= reference.remaining
                  THEN "Match" ELSE "Reject"
        /\ MatchCount(trace, Len(trace)) <= reference.remaining
        /\ searcher.remaining =
               Max(reference.remaining - MatchCount(searcher.searcher.steps, Len(trace)), 0)

\* A complete run of Limit(1) over a child with two matches: the first one
\* came through, the second one was rejected.
C13_Witness ==
    /\ searcher.kind = "limit" /\ pc = "checked"
    /\ reference.remaining = 1 /\ searcher.remaining = 0
    /\ MatchCount(searcher.searcher.steps, Len(searcher.searcher.steps)) = 2
    /\ MatchCount(trace, Len(trace)) = 1

\* C14: Skip(n) returns one step per step of the child with the same start
\* and end; the i-th Match of the child is a Reject when i <= n and a Match
\* when i > n, a Reject stays a Reject and Done stays Done; the counter goes
\* down by one per suppressed match and not below 0.
C14_SkipSteps ==
    searcher.kind = "skip" =>
        /\ StepForStep
        /\ \A i \in 1..Len(trace) :
              trace[i].tag =
                  IF /\ searcher.searcher.steps[i].tag = "Match"
                     /\ MatchCount(searcher.searcher.steps, i) > reference.n
                  THEN "Match" ELSE "Reject"
        /\ searcher.n = Max(reference.n - MatchCount(searcher.searcher.steps, Len(trace)), 0)
        /\ searcher.n =
               reference.n - (MatchCount(searcher.searcher.steps, Len(trace))
                              - MatchCount(trace, Len(trace)))

\* A complete run of Skip(1) over a child with two matches: the first one was
\* suppressed, the second one came through.
C14_Witness ==
    /\ searcher.kind = "skip" /\ pc = "checked"
    /\ reference.n = 1 /\ searcher.n = 0
    /\ MatchCount(searcher.searcher.steps, Len(searcher.searcher.steps)) = 2
    /\ MatchCount(trace, Len(trace)) = 1

-----------------------------------------------------------------------------
(* FusedPattern over a child that need not keep returning Done              *)

\* Most steps a child is given to return after its first Done.
MaxLate == 2

\* What a child may return when it is called after its first Done.
LateSteps(n) == {Done, Match(0, n), Reject(0, n)}

\* A child over a haystack of n bytes: a partition, Done, and then any steps
\* (and Done for ever once those are used up).
UnfusedChildren(n) ==
    { p \o <<Done>> \o q : p \in Partitions(n),
                           q \in UNION {[1..k -> LateSteps(n)] : k \in 0..MaxLate} }

InitFused ==
    /\ \E n \in 0..MaxLen :
       \E sa \in UnfusedChildren(n) :
            searcher = FusedSearcher(Leaf(sa, n))
    /\ reference = NoSearcher
    /\ InitHarness

SpecFused == InitFused /\ [][Next]_vars

\* C15: until its first Done the FusedSearcher returns the steps of its
\* child; once it has returned Done, every later next() returns Done and the
\* child is not called again, whatever the child would return.
C15_FusedDone ==
    searcher.kind = "fused" =>
        /\ trace = SubSeq(searcher.searcher.steps, 1, Len(trace))
        /\ pc = "loop" => searcher.searcher.pos = Len(trace) /\ ~searcher.exhausted
        /\ pc \in {"done", "checked"} =>
              /\ step = Done
              /\ searcher.exhausted
              /\ searcher.searcher.pos = Len(trace) + 1
              /\ searcher.searcher.steps[Len(trace) + 1] = Done
        /\ pc = "checked" => dones = AfterDoneCalls
        /\ pc # "panicked"

\* The calls after the first Done have been made on a FusedSearcher whose
\* child would have returned a Match to the first of them.
C15_Witness ==
    /\ searcher.kind = "fused" /\ pc = "checked"
    /\ Len(trace) > 0
    /\ searcher.searcher.pos < Len(searcher.searcher.steps)
    /\ searcher.searcher.steps[searcher.searcher.pos + 1].tag = "Match"

-----------------------------------------------------------------------------
(* IndexedPattern over an arbitrary child                                   *)

InitIndexed ==
    /\ \E n \in 0..MaxLen :
       \E sa \in Partitions(n) :
            searcher = IndexedSearcher(Leaf(sa, n))
    /\ reference = NoSearcher
    /\ InitHarness

SpecIndexed == InitIndexed /\ [][Next]_vars

\* C17: index() of an IndexedSearcher is 0 before the first step and after
\* every next() the end of the latest Match or Reject; a Done leaves it as it
\* is; every step returned is the step of the child.
C17_IndexedIndex ==
    searcher.kind = "indexed" =>
        /\ trace = SubSeq(searcher.searcher.steps, 1, Len(trace))
        /\ searcher.searcher.pos = Len(trace)
        /\ searcher.index = (IF trace = <<>> THEN 0 ELSE trace[Len(trace)].end)
        /\ pc \in {"done", "checked"} =>
              step = Done /\ Len(trace) = Len(searcher.searcher.steps)
        /\ pc = "checked" => dones = AfterDoneCalls
        /\ pc # "panicked"

\* An IndexedSearcher that has returned Done after a Match and a Reject:
\* index() is the end of that Reject.
C17_Witness ==
    /\ searcher.kind = "indexed" /\ pc = "checked"
    /\ Len(trace) = 2
    /\ trace[1].tag = "Match" /\ trace[1].end > trace[1].start
    /\ trace[2].tag = "Reject"
    /\ searcher.index = trace[2].end

-----------------------------------------------------------------------------
(* PeekablePattern over an arbitrary child, read by a caller that peeks any *)
(* number of times before each next() and compares what it gets, as         *)
(* tests::test_simple of adapters/peekable.rs does.  Here reference_step is *)
(* what the latest peek() returned and dones counts the calls of peek()     *)
(* since the latest next().                                                 *)

\* Most calls of peek() in a row.
MaxPeeks == 2

InitPeekable ==
    /\ \E n \in 0..MaxLen :
       \E sa \in Partitions(n) :
            searcher = PeekableSearcher(Leaf(sa, n))
    /\ reference = NoSearcher
    /\ InitHarness

\* `searcher.peek()`, compared with the peek() before it.
PeekCall ==
    /\ pc = "loop"
    /\ dones < MaxPeeks
    /\ \E r \in {PeekableSearcher_peek(searcher)} :
       /\ searcher' = r.s
       /\ reference_step' = r.step
       /\ pc' = IF dones > 0 /\ r.step # reference_step THEN "failed" ELSE "loop"
    /\ dones' = dones + 1
    /\ UNCHANGED <<reference, step, trace, last_end>>

\* `searcher.next()`, compared with the peek() before it, if there was one.
NextCall ==
    /\ pc = "loop"
    /\ \E r \in {PeekableSearcher_next(searcher)} :
       /\ searcher' = r.s
       /\ step' = r.step
       /\ trace' = IF IsSpan(r.step) THEN Append(trace, r.step) ELSE trace
       /\ last_end' = IF IsSpan(r.step) THEN r.step.end ELSE last_end
       /\ pc' = IF dones > 0 /\ r.step # reference_step THEN "failed"
                ELSE IF r.step = Done THEN "done" ELSE "loop"
    /\ dones' = 0
    /\ UNCHANGED <<reference, reference_step>>

NextPeekable == PeekCall \/ NextCall

SpecPeekable == InitPeekable /\ [][NextPeekable]_vars

\* The step the child returns after the steps in trace.
PeekableUpcoming ==
    IF Len(trace) < Len(searcher.searcher.steps)
    THEN searcher.searcher.steps[Len(trace) + 1] ELSE Done

\* C16: peek() returns the step the next next() returns; peek() calls in a
\* row return the same step and pull at most one step from the child; the
\* steps next() returns are the steps of the child, whatever peeks come in
\* between.
C16_PeekableSteps ==
    searcher.kind = "peekable" =>
        /\ pc # "failed"
        /\ trace = SubSeq(searcher.searcher.steps, 1, Len(trace))
        /\ pc = "done" => step = Done /\ Len(trace) = Len(searcher.searcher.steps)
        /\ (pc = "loop" /\ dones > 0) =>
              /\ reference_step = PeekableUpcoming
              /\ searcher.peeked = Some(reference_step)
              /\ searcher.searcher.pos = Min(Len(trace) + 1, Len(searcher.searcher.steps))
        /\ dones = 0 =>
              /\ searcher.peeked = None
              /\ searcher.searcher.pos = Len(trace)

\* next() has returned, as the second step, the Match that the peek() before
\* it returned.
C16_Witness ==
    /\ searcher.kind = "peekable" /\ pc = "loop" /\ dones = 0
    /\ Len(trace) = 2
    /\ trace[1].tag = "Reject" /\ trace[2].tag = "Match"
    /\ step = trace[2]
    /\ reference_step = trace[2]

-----------------------------------------------------------------------------
(* The shape of the steps of Simplify                                       *)

\* C18: the Simplify searcher never returns two Rejects in a row: the step
\* after a Reject is a Match or Done.
C18_SimplifyNoRejectPair ==
    searcher.kind = "simplify" =>
        /\ \A i \in 1..(Len(trace) - 1) :
              trace[i].tag = "Reject" => trace[i + 1].tag = "Match"
        /\ (trace # <<>> /\ trace[Len(trace)].tag = "Reject") =>
              step.tag \in {"Reject", "Done"} /\ pc # "panicked"

\* A complete run of Simplify that returned a Reject, then a Match, twice.
C18_Witness ==
    /\ searcher.kind = "simplify" /\ pc = "checked"
    /\ Len(trace) = 4
    /\ trace[1].tag = "Reject" /\ trace[2].tag = "Match"
    /\ trace[3].tag = "Reject" /\ trace[4].tag = "Match"

-----------------------------------------------------------------------------
(* NotPattern over an arbitrary child                                       *)

InitNot ==
    /\ \E n \in 0..MaxLen :
       \E sa \in Partitions(n) :
            searcher = NotSearcher(Leaf(sa, n))
    /\ reference = NoSearcher
    /\ InitHarness

SpecNot == InitNot /\ [][Next]_vars

\* The step NotSearcher::next makes of a step of its child.
Swapped(st) ==
    CASE st.tag = "Match" -> Reject(st.start, st.end)
      [] st.tag = "Reject" -> Match(st.start, st.end)
      [] OTHER -> st

\* C19: Not returns one step per step of its child, with the same start and
\* end: a Match of the child as a Reject, a Reject as a Match, Done as Done;
\* so its steps partition the haystack as the steps of the child do.
C19_NotSteps ==
    (searcher.kind = "not" /\ searcher.inner.kind = "leaf") =>
        /\ Len(trace) = searcher.inner.pos
        /\ \A i \in 1..Len(trace) : trace[i] = Swapped(searcher.inner.steps[i])
        /\ pc \in {"done", "checked"} =>
              step = Done /\ Len(trace) = Len(searcher.inner.steps)
        /\ PartitionInvariant
        /\ pc # "panicked"

\* A complete run of Not over a child that returned a Match and then a
\* Reject.
C19_Witness ==
    /\ searcher.kind = "not" /\ searcher.inner.kind = "leaf" /\ pc = "checked"
    /\ Len(trace) = 2
    /\ searcher.inner.steps[1].tag = "Match" /\ searcher.inner.steps[2].tag = "Reject"
    /\ trace[1].tag = "Reject" /\ trace[2].tag = "Match"

-----------------------------------------------------------------------------
(* NotPattern over a reversible child, read from both ends.  The child is a *)
(* DoubleEndedSearcher (as the CharSearcher of core::str): next() takes the *)
(* steps from the front, next_back() from the back, until they meet.        *)
(* Here reference is the searcher of the child alone, on which the same     *)
(* calls are made.                                                          *)

RevLeaf(steps, n) == [kind |-> "revleaf", steps |-> steps, pos |-> 0, rpos |-> 0, len |-> n]

RevLeaf_next(s) ==
    IF s.pos + s.rpos < Len(s.steps)
    THEN Ret([s EXCEPT !.pos = s.pos + 1], s.steps[s.pos + 1])
    ELSE Ret(s, Done)

RevLeaf_next_back(s) ==
    IF s.pos + s.rpos < Len(s.steps)
    THEN Ret([s EXCEPT !.rpos = s.rpos + 1], s.steps[Len(s.steps) - s.rpos])
    ELSE Ret(s, Done)

\* The match arms of NotSearcher::next_back, r being what the call in its
\* head returned.
NotSearcher_next_back_arms(s, r) ==
    CASE r.step.tag = "Match" ->
             Ret([s EXCEPT !.inner = r.s], Reject(r.step.start, r.step.end))
      [] r.step.tag = "Reject" ->
             Ret([s EXCEPT !.inner = r.s], Match(r.step.start, r.step.end))
      [] OTHER -> Ret([s EXCEPT !.inner = r.s], r.step)

\* NotSearcher::next_back: `match self.0.next() { ... }`.
NotSearcher_next_back(s) == NotSearcher_next_back_arms(s, RevLeaf_next(s.inner))

InitNotBack ==
    /\ \E n \in 0..MaxLen :
       \E sa \in Partitions(n) :
          /\ searcher = NotSearcher(RevLeaf(sa, n))
          /\ reference = RevLeaf(sa, n)
    /\ InitHarness

\* next() on the NotSearcher and on the searcher of the child.
FrontCall ==
    /\ pc \in {"loop", "back"}
    /\ \E r \in {NotSearcher_next(searcher, RevLeaf_next(searcher.inner))},
          o \in {RevLeaf_next(reference)} :
       /\ searcher' = r.s
       /\ reference' = o.s
       /\ step' = r.step
       /\ reference_step' = o.step
       /\ trace' = IF IsSpan(r.step) THEN Append(trace, r.step) ELSE trace
       /\ last_end' = IF IsSpan(r.step) THEN r.step.end ELSE last_end
       /\ pc' = IF r.step = Done THEN "done" ELSE "loop"
    /\ UNCHANGED dones

\* next_back() on the NotSearcher and on the searcher of the child.
BackCall ==
    /\ pc \in {"loop", "back"}
    /\ \E r \in {NotSearcher_next_back(searcher)},
          o \in {RevLeaf_next_back(reference)} :
       /\ searcher' = r.s
       /\ reference' = o.s
       /\ step' = r.step
       /\ reference_step' = o.step
       /\ pc' = IF r.step = Done THEN "done" ELSE "back"
    /\ UNCHANGED <<trace, last_end, dones>>

NextNotBack == FrontCall \/ BackCall

SpecNotBack == InitNotBack /\ [][NextNotBack]_vars

\* C20: over a reversible child, next_back() of Not takes one step from the
\* back of the child (the child's next_back()) and returns it with Match and
\* Reject swapped; it takes no step from the front.
C20_NotNextBack ==
    (searcher.kind = "not" /\ searcher.inner.kind = "revleaf" /\ pc = "back") =>
        /\ step = Swapped(reference_step)
        /\ searcher.inner = reference

-----------------------------------------------------------------------------
(* utils::Range, as fuzz_range drives it: two ranges are built from raw     *)
(* bounds, intersected with each other in both orders, then each with       *)
(* itself.  Here trace holds the two pairs of raw bounds, searcher and      *)
(* reference the ranges range_left and range_right built from them, step    *)
(* and reference_step the two results compared by the latest assert_eq!.    *)

\* Largest raw bound explored.
MaxBound == 3

RawBounds == (0..MaxBound) \X (0..MaxBound)

InitRange ==
    /\ trace \in RawBounds \X RawBounds
    /\ searcher = NoSearcher
    /\ reference = NoSearcher
    /\ step = NoStep
    /\ reference_step = NoStep
    /\ last_end = 0
    /\ dones = 0
    /\ pc = "raw"

\* `(Range::from(data.0), Range::from(data.1))`.
RangeFrom ==
    /\ pc = "raw"
    /\ searcher' = Range_from(trace[1])
    /\ reference' = Range_from(trace[2])
    /\ pc' = "built"
    /\ UNCHANGED <<step, reference_step, trace, last_end, dones>>

\* `range_left.intersect(range_right)` and `range_right.intersect(range_left)`.
IntersectBoth ==
    /\ pc = "built"
    /\ step' = Range_intersect(searcher, reference)
    /\ reference_step' = Range_intersect(reference, searcher)
    /\ pc' = "commuted"
    /\ UNCHANGED <<searcher, reference, trace, last_end, dones>>

\* `range_left.intersect(range_left)` and `range_right.intersect(range_right)`.
IntersectSelf ==
    /\ pc = "commuted"
    /\ step' = Range_intersect(searcher, searcher)
    /\ reference_step' = Range_intersect(reference, reference)
    /\ pc' = "self"
    /\ UNCHANGED <<searcher, reference, trace, last_end, dones>>

NextRange == RangeFrom \/ IntersectBoth \/ IntersectSelf

SpecRange == InitRange /\ [][NextRange]_vars

\* C21: intersection commutes: a.intersect(b) = b.intersect(a) for all ranges
\* a and b, empty ranges and ranges with start > end included.
C21_IntersectCommutes == pc = "commuted" => step = reference_step

\* Two different ranges, one of them with start > end, have been intersected
\* and have something in common.
C21_Witness ==
    /\ pc = "commuted"
    /\ searcher # reference
    /\ searcher.start > searcher.end
    /\ IsSome(step)

\* C22: a.intersect(a) = Some(a) for every range a that is not empty, where
\* len is max(start, end) - min(start, end), so that a range with start > end
\* is not empty.
C22_IntersectSelf ==
    pc = "self" =>
        /\ Range_len(searcher) > 0 => step = Some(searcher)
        /\ Range_len(reference) > 0 => reference_step = Some(reference)

\* C23: a.intersect(b) is None exactly when a or b has length zero or
\* b.start >= a.end or a.start >= b.end; otherwise it is Some(r) with
\* r.start = max(a.start, b.start), r.end = min(a.end, b.end), and r is a
\* non-empty range (r.start < r.end) inside a and inside b.
C23_IntersectResult ==
    pc = "commuted" =>
        /\ step = None <=>
              \/ Range_len(searcher) = 0 \/ Range_len(reference) = 0
              \/ reference.start >= searcher.end \/ searcher.start >= reference.end
        /\ IsSome(step) =>
              /\ Unwrap(step).start = Max(searcher.start, reference.start)
              /\ Unwrap(step).end = Min(searcher.end, reference.end)
              /\ Unwrap(step).start < Unwrap(step).end
              /\ searcher.start <= Unwrap(step).start /\ Unwrap(step).end <= searcher.end
              /\ reference.start <= Unwrap(step).start /\ Unwrap(step).end <= reference.end

\* C24 as claimed: a Range built from any pair of raw bounds has
\* start() <= end(), and the bounds in either order give the same range.
C24_Normalized ==
    pc # "raw" =>
        /\ searcher.start <= searcher.end
        /\ trace[2] = <<trace[1][2], trace[1][1]>> => reference = searcher

\* C24 as amended: a Range built from a pair of raw bounds keeps them as
\* given, start() the first and end() the second, also when the first is the
\* greater one; into() gives the pair back, and len() is their distance, the
\* same for the bounds in either order.
C24_KeepsBounds ==
    pc # "raw" =>
        /\ searcher.start = trace[1][1] /\ searcher.end = trace[1][2]
        /\ Range_into(searcher) = trace[1]
        /\ Range_len(searcher) = Max(trace[1][1], trace[1][2]) - Min(trace[1][1], trace[1][2])
        /\ trace[2] = <<trace[1][2], trace[1][1]>> =>
              Range_len(reference) = Range_len(searcher)

\* Two ranges built from the same two bounds, the first with the greater
\* bound first, the second with the smaller one first.
C24_Witness ==
    /\ pc = "built"
    /\ trace[1][1] > trace[1][2]
    /\ trace[2] = <<trace[1][2], trace[1][1]>>
    /\ searcher.start > searcher.end
    /\ reference.start < reference.end

-----------------------------------------------------------------------------
(* adapters::stateful: the searcher of a predicate on chars that carries a  *)
(* state of its own.  The predicate is any function of the char and the     *)
(* state to a verdict and a new state (the state is a bool, as in           *)
(* tests::test_parentheses); as an FnMut it also keeps a record of the      *)
(* calls made to it.                                                        *)

\* Longest haystack explored for the stateful searcher, in chars.
MaxChars == 2

\* The predicates: <<verdict, state after the call>> for each char and state.
Predicates == [Chars \X BOOLEAN -> BOOLEAN \X BOOLEAN]

FnMut(table) == [table |-> table, calls |-> <<>>]

\* `(self.f)(c, &mut self.state)`.
FnMut_call(f, c, state) ==
    [f |-> [f EXCEPT !.calls = Append(@, <<c, state>>)],
     result |-> f.table[<<c, state>>][1],
     state |-> f.table[<<c, state>>][2]]

\* haystack.char_indices(): the chars with their byte offsets.
char_indices(h) == [i \in 1..Len(h) |-> <<Offset(h, i), h[i]>>]

StatefulCharSearcher(h, f, state) ==
    [kind |-> "stateful", f |-> f, state |-> state, chars |-> char_indices(h)]

\* The body of `if let Some((start, c)) = self.chars.next()` with the
\* predicate given a copy of the state, whose changes are not kept.
StatefulCharSearcher_step_state_copied(s, start, c, r) ==
    Ret([s EXCEPT !.f = r.f, !.chars = Tail(@)],
        IF r.result THEN Match(start, start + len_utf8(c))
                    ELSE Reject(start, start + len_utf8(c)))

\* The body of `if let Some((start, c)) = self.chars.next()`, r being what
\* the call of the predicate left and returned.
StatefulCharSearcher_step(s, start, c, r) ==
    Ret([s EXCEPT !.f = r.f, !.state = r.state, !.chars = Tail(@)],
        IF r.result THEN Match(start, start + len_utf8(c))
                    ELSE Reject(start, start + len_utf8(c)))

StatefulCharSearcher_next(s) ==
    IF s.chars # <<>>
    THEN StatefulCharSearcher_step(s, Head(s.chars)[1], Head(s.chars)[2],
                                   FnMut_call(s.f, Head(s.chars)[2], s.state))
    ELSE Ret(s, Done)

\* reference keeps the searcher as into_searcher built it.
InitStateful ==
    /\ \E h \in UNION {[1..n -> Chars] : n \in 0..MaxChars}, table \in Predicates :
            searcher = StatefulCharSearcher(h, FnMut(table), FALSE)
    /\ reference = searcher
    /\ InitHarness

\* `assert_eq!(searcher.next(), ...)`, until Done.
StatefulPoll ==
    /\ pc = "loop"
    /\ \E r \in {StatefulCharSearcher_next(searcher)} :
       /\ searcher' = r.s
       /\ step' = r.step
       /\ trace' = IF IsSpan(r.step) THEN Append(trace, r.step) ELSE trace
       /\ last_end' = IF IsSpan(r.step) THEN r.step.end ELSE last_end
       /\ pc' = IF IsSpan(r.step) THEN "loop" ELSE "done"
    /\ UNCHANGED <<reference, reference_step, dones>>

NextStateful == StatefulPoll

SpecStateful == InitStateful /\ [][NextStateful]_vars

\* The state the predicate of the searcher as built leaves to the call for
\* the i-th char, if it is called once for each char in order.
RECURSIVE StateBefore(_)
StateBefore(i) ==
    IF i = 1 THEN reference.state
    ELSE reference.f.table[<<reference.chars[i - 1][2], StateBefore(i - 1)>>][2]

\* C25: the stateful char searcher returns one step for each char of the
\* haystack, in order, over the bytes of that char, then Done; the step is a
\* Match iff the predicate returned true for the char, and the predicate is
\* called once per char, with the state the call before left.
C25_StatefulSteps ==
    searcher.kind = "stateful" =>
        /\ Len(trace) + Len(searcher.chars) = Len(reference.chars)
        /\ \A i \in 1..Len(trace) :
              /\ trace[i].start = reference.chars[i][1]
              /\ trace[i].end = reference.chars[i][1] + len_utf8(reference.chars[i][2])
              /\ trace[i].tag =
                     IF reference.f.table[<<reference.chars[i][2], StateBefore(i)>>][1]
                     THEN "Match" ELSE "Reject"
        /\ searcher.f.calls =
               [i \in 1..Len(trace) |-> <<reference.chars[i][2], StateBefore(i)>>]
        /\ searcher.state = StateBefore(Len(trace) + 1)
        /\ pc = "done" => step = Done /\ Len(trace) = Len(reference.chars)

\* A complete run over two chars, the first of two bytes, in which the first
\* call changed the state and the verdict on the second char depended on it.
C25_Witness ==
    /\ searcher.kind = "stateful" /\ pc = "done"
    /\ Len(trace) = 2
    /\ trace[1] = Reject(0, 2) /\ trace[2] = Match(2, 3)
    /\ StateBefore(2) # reference.state
    /\ ~reference.f.table[<<reference.chars[2][2], reference.state>>][1]

-----------------------------------------------------------------------------
\* C26: over any sequence of next() calls that return, index() of the
\* searcher never decreases and never exceeds the length of the haystack.
C26_CursorMonotone ==
    [][(searcher.kind \in {"or", "then", "simplify", "indexed"} /\ pc' # "panicked") =>
           /\ searcher'.index >= searcher.index
           /\ searcher'.index <= haystack_len(searcher')]_vars

-----------------------------------------------------------------------------
\* The number of matches a child reports.
NMatches(l) == Cardinality({i \in DOMAIN l.steps : l.steps[i].tag = "Match"})

\* C27: no call of next() panics, and the calls end: the searcher returns at
\* most a Reject and a Match for each match of its children and one Reject
\* more before Done, zero-length matches of the children included.
C27_NoPanicEnds ==
    searcher.kind = "or" =>
        /\ pc # "panicked"
        /\ Len(trace) <= 2 * (NMatches(searcher.a) + NMatches(searcher.b)) + 1

\* `match self.next_matches()` takes the arm (Some(a), Some(b)) and in it the
\* last branch, unreachable!().
OrSearcher_arms_unreachable(nm) ==
    /\ ~nm.panic
    /\ IsSome(nm.a) /\ IsSome(nm.b)
    /\ OrSearcher_select(nm.s, Unwrap(nm.a), Unwrap(nm.b)).unreachable

\* OrSearcher::next on s gets to unreachable!().
OrSearcher_next_unreachable(s) ==
    /\ ~IsSome(s.next_match)
    /\ s.index < haystack_len(s)
    /\ OrSearcher_arms_unreachable(OrSearcher_next_matches(s))

\* C28: no call of OrSearcher::next gets to the branch of two pending matches
\* that neither intersect nor are equal and have the same start.
C28_BranchNotReached ==
    [][~(pc = "loop" /\ searcher.kind = "or" /\ OrSearcher_next_unreachable(searcher)
         /\ pc' = "panicked")]_vars

-----------------------------------------------------------------------------
\* The (start, end) that `match self.next_matches()` hands to match_step, if
\* any, nm being what next_matches() returned.
OrSearcher_arms_selected(nm) ==
    IF nm.panic THEN None
    ELSE IF IsSome(nm.a) /\ IsSome(nm.b)
    THEN IF OrSearcher_select(nm.s, Unwrap(nm.a), Unwrap(nm.b)).unreachable THEN None
         ELSE Some(OrSearcher_select(nm.s, Unwrap(nm.a), Unwrap(nm.b)).m)
    ELSE IF IsSome(nm.a) THEN nm.a
    ELSE nm.b

\* The match OrSearcher::next on s selects from its children and its cache.
OrSearcher_next_selected(s) ==
    IF IsSome(s.next_match) \/ s.index >= haystack_len(s) THEN None
    ELSE OrSearcher_arms_selected(OrSearcher_next_matches(s))

\* The call that selected m at cursor index went to s and returned st: st is
\* the Reject up to the start of m, and what the following call does, r, is
\* to return m and leave both children and the cache as they are.
RejectThenMatch(index, m, s, st, r) ==
    /\ st = Reject(index, m[1])
    /\ r.step = Match(m[1], m[2])
    /\ r.s.a = s.a /\ r.s.b = s.b /\ r.s.cached_match = s.cached_match
    /\ r.s.index = m[2]

\* C29: when a call of next() on the Or searcher selects a match that starts
\* after the cursor, it returns Reject(cursor, start of the match), and the
\* call after it returns that Match without a pull from either child.
C29_RejectThenMatch ==
    [][(/\ pc = "loop" /\ searcher.kind = "or" /\ pc' # "panicked"
        /\ IsSome(OrSearcher_next_selected(searcher))
        /\ Unwrap(OrSearcher_next_selected(searcher))[1] > searcher.index)
       => RejectThenMatch(searcher.index, Unwrap(OrSearcher_next_selected(searcher)),
                          searcher', step', OrSearcher_next(searcher'))]_vars

\* Child a matches 1..2 of three bytes and b nothing: the first call returned
\* Reject(0, 1) and the second Match(1, 2), and a has still been pulled no
\* further than that match.
C29_Witness ==
    /\ searcher.kind = "or" /\ pc = "loop"
    /\ searcher.a.steps = <<Reject(0, 1), Match(1, 2), Reject(2, 3)>>
    /\ searcher.b.steps = <<Reject(0, 3)>>
    /\ trace = <<Reject(0, 1), Match(1, 2)>>
    /\ step = Match(1, 2)
    /\ searcher.a.pos = 2
    /\ ~IsSome(searcher.next_match)

-----------------------------------------------------------------------------
\* CachedMatch::A(start, end) and CachedMatch::B(start, end) in the cache.
Cached(side, m) == Some([side |-> side, start |-> m[1], end |-> m[2]])

\* The call of next() on s with pending matches `first` and `other`, o being
\* its outcome: unless it panicked, `first` is returned as a Match, or kept
\* behind the Reject that leads to it, `other` is in the cache, and
\* next_matches() on what is left takes it from there and leaves the child
\* of that side alone.
EmitsAndCaches(s, first, side, other, o) ==
    \/ o.step = Panic
    \/ /\ \/ o.step = Match(first[1], first[2])
          \/ o.step = Reject(s.index, first[1]) /\ o.s.next_match = Some(first)
       /\ o.s.cached_match = Cached(side, other)
       /\ IF side = "A"
          THEN /\ OrSearcher_next_matches(o.s).a = Some(other)
               /\ OrSearcher_next_matches(o.s).s.a = o.s.a
          ELSE /\ OrSearcher_next_matches(o.s).b = Some(other)
               /\ OrSearcher_next_matches(o.s).s.b = o.s.b

\* Every match of child x that conflicts with no match of child y is among
\* the steps returned.
NotLost(x, y) ==
    \A m \in ChildMatches(x) :
        (\A o \in ChildMatches(y) : ~OrConflict(<<m.start, m.end>>, <<o.start, o.end>>))
            => \E i \in 1..Len(trace) : trace[i] = m

\* C30: when the pending matches of the two children neither intersect nor are
\* equal, the call emits the one that starts first and caches the other, and
\* the next pull takes the cached match without a call of that child; and
\* when the searcher has returned Done, every match of a child that overlaps
\* no match of the other child has been returned as a Match with its bounds.
C30_CachedNotLost ==
    /\ OrPulls =>
          LET nm == OrSearcher_next_matches(searcher) IN
          (/\ IsSome(nm.a) /\ IsSome(nm.b)
           /\ ~OrConflict(Unwrap(nm.a), Unwrap(nm.b))
           /\ Unwrap(nm.a)[1] # Unwrap(nm.b)[1]) =>
              \A o \in Builds(searcher, OrSearcher_next(searcher)) :
                  IF Unwrap(nm.a)[1] < Unwrap(nm.b)[1]
                  THEN EmitsAndCaches(searcher, Unwrap(nm.a), "B", Unwrap(nm.b), o)
                  ELSE EmitsAndCaches(searcher, Unwrap(nm.b), "A", Unwrap(nm.a), o)
    /\ (searcher.kind = "or" /\ pc \in {"done", "checked"}) =>
          NotLost(searcher.a, searcher.b) /\ NotLost(searcher.b, searcher.a)

-----------------------------------------------------------------------------
(* Then: the rejection of the rest of the haystack                          *)

\* The matches a child has not reported yet.
MatchesAhead(l) ==
    {<<l.steps[i].start, l.steps[i].end>> :
        i \in {j \in (l.pos + 1)..Len(l.steps) : l.steps[j].tag = "Match"}}

\* The matches of first that next_internal_match can still return, and the
\* earliest of them.
FirstAhead(s) == {m \in MatchesAhead(s.first) : m[1] >= s.index}

CurrentFirst(s) ==
    CHOOSE m \in FirstAhead(s) :
        \A o \in FirstAhead(s) : m[1] < o[1] \/ (m[1] = o[1] /\ m[2] <= o[2])

\* The matches of then that next_then_match can still return.
ThenAhead(s) ==
    MatchesAhead(s.then) \cup (IF IsSome(s.next_then) THEN {Unwrap(s.next_then)} ELSE {})

\* first has no match at or after the cursor, or then has no match that ends
\* after the end of the current match of first or lies at that end.
ThenExhausted(s) ==
    \/ FirstAhead(s) = {}
    \/ \A mb \in ThenAhead(s) :
          /\ mb[2] <= CurrentFirst(s)[2]
          /\ mb # <<CurrentFirst(s)[2], CurrentFirst(s)[2]>>

\* The searcher is about to ask its children for matches.
ThenPulls ==
    /\ pc = "loop" /\ searcher.kind = "then"
    /\ ~IsSome(searcher.next_match)
    /\ searcher.index < haystack_len(searcher)

\* `if let Some((start, end)) = self.next_internal_match()` ends in
\* self.reject_remaining(), im being what next_internal_match returned.
ThenSearcher_first_rejects_remaining(im) ==
    /\ ~im.panic
    /\ IsSome(im.m) =>
          /\ ~ThenSearcher_next_then_match(im.s, Unwrap(im.m)[2]).panic
          /\ ~IsSome(ThenSearcher_next_then_match(im.s, Unwrap(im.m)[2]).m)

\* ThenSearcher::next on s gets to self.reject_remaining().
ThenSearcher_next_rejects_remaining(s) ==
    /\ ~IsSome(s.next_match)
    /\ s.index < haystack_len(s)
    /\ ThenSearcher_first_rejects_remaining(ThenSearcher_next_internal_match(s))

\* C31: when first has no further match at or after the cursor, or then has
\* no further match for the current match of first, next() returns one
\* Reject from the cursor to the end of the haystack and the call after it
\* returns Done; and whenever next() rejects the rest of the haystack, no
\* match of first still ahead ends where a match of then still ahead starts.
C31_RejectRemaining ==
    [][(ThenPulls /\ pc' # "panicked") =>
         /\ ThenExhausted(searcher) =>
               /\ step' = Reject(searcher.index, haystack_len(searcher))
               /\ ThenSearcher_next(searcher').step = Done
         /\ ThenSearcher_next_rejects_remaining(searcher) =>
               ~\E ma \in FirstAhead(searcher), mb \in ThenAhead(searcher) :
                    ma[2] = mb[1]]_vars

-----------------------------------------------------------------------------
(* Or and Then over children that are not fused: after its own Done a child *)
(* goes on with steps of any kind.                                          *)

\* What a child returns after its Done: nothing more, or one more step.
LateTails(n) == {<<>>} \cup {<<st>> : st \in LateSteps(n)}

UnfusedPairChildren(n) ==
    {p \o <<Done>> \o q : p \in PairChildren(n), q \in LateTails(n)}

InitUnfused ==
    /\ \E n \in 0..MaxLate :
       \E sa \in UnfusedPairChildren(n), sb \in UnfusedPairChildren(n) :
          \/ \E f \in {"Left", "Right"} :
                searcher = OrSearcher(Leaf(sa, n), Leaf(sb, n), f)
          \/ searcher = ThenSearcher(Leaf(sa, n), Leaf(sb, n))
    /\ reference = NoSearcher
    /\ InitHarness

SpecUnfused == InitUnfused /\ [][Next]_vars

\* C32: once the Or searcher or the Then searcher has returned Done, each of
\* the calls of next() that follow returns Done and leaves the searcher, its
\* children included, as it was, also when a child would go on with further
\* steps after its own Done.
C32_DoneStays ==
    [][pc = "done" =>
         /\ step' = Done
         /\ dones' = AfterDoneCalls
         /\ searcher' = searcher]_vars

\* Done has been returned four times over a non-empty haystack, returned
\* steps before it, and a child that has not been read to its own Done still
\* has a Match to return after it.
C32_Witness ==
    /\ pc = "checked" /\ dones = AfterDoneCalls
    /\ searcher.kind \in {"or", "then"}
    /\ Len(trace) >= 2
    /\ \E c \in (IF searcher.kind = "or" THEN {searcher.a, searcher.b}
                  ELSE {searcher.first, searcher.then}) :
          /\ c.pos < Len(c.steps) - 1
          /\ c.steps[c.pos + 1] = Done
          /\ c.steps[c.pos + 2].tag = "Match"

-----------------------------------------------------------------------------
(* Repeat: runs of matches of the child                                     *)

\* The steps c + 1 .. c + k of the child are a whole run of matches: the step
\* before them is no Match and the step after them is a Reject, or the child
\* is exhausted.
RunAt(c, k) ==
    /\ k >= 1 /\ c + k <= Len(RepeatChild)
    /\ c = 0 \/ RepeatChild[c].tag # "Match"
    /\ \A j \in (c + 1)..(c + k) : RepeatChild[j].tag = "Match"
    /\ c + k < Len(RepeatChild) => RepeatChild[c + k + 1].tag = "Reject"

\* The Repeat searcher is about to be called.
RepeatPulls == pc = "loop" /\ searcher.kind = "repeat"

\* C33: when the child's next steps are a whole run of k < min matches,
\* next() returns one Reject from the start of the first to the end of the
\* last of them and has consumed these k steps and no other; the call after
\* it returns the step of the child that follows the run, if it is a Reject,
\* and Done if the child is exhausted.
C33_ShortRunRejected ==
    [][RepeatPulls =>
         \A k \in 1..Len(RepeatChild) :
            (RunAt(RepeatConsumed, k) /\ k < searcher.min) =>
               /\ step' = Reject(RepeatChild[RepeatConsumed + 1].start,
                                 RepeatChild[RepeatConsumed + k].end)
               /\ RepeatConsumed' = RepeatConsumed + k
               /\ RepeatSearcher_next(searcher').step =
                     IF RepeatConsumed + k < Len(RepeatChild)
                     THEN RepeatChild[RepeatConsumed + k + 1] ELSE Done]_vars

\* Repeat(3, 3) has returned a Reject over the first two steps of the child,
\* a non-empty match and an empty one, and then the Reject that follows them.
C33_Witness ==
    /\ searcher.kind = "repeat" /\ searcher.min = 3 /\ pc = "loop"
    /\ RepeatChild = <<Match(0, 1), Match(1, 1), Reject(1, 2)>>
    /\ trace = <<Reject(0, 1), Reject(1, 2)>>

\* The steps c + 1 .. c + k of the child are matches and the step after them
\* is not.
MatchesAt(c, k) ==
    /\ k >= 1 /\ c + k <= Len(RepeatChild)
    /\ \A j \in (c + 1)..(c + k) : RepeatChild[j].tag = "Match"
    /\ c + k < Len(RepeatChild) => RepeatChild[c + k + 1].tag # "Match"

\* The step that spans n steps of the child from step c + 1 on: a Match if n
\* reaches min, else a Reject.
Fused(c, n, min) ==
    [tag |-> IF n >= min THEN "Match" ELSE "Reject",
     start |-> RepeatChild[c + 1].start, end |-> RepeatChild[c + n].end]

\* C34: Repeat(min, max) with max >= 1 is greedy: with k matches of a run of
\* the child still ahead, next() fuses max of them if k > max and all k of
\* them otherwise, into one Match if they are at least min and one Reject if
\* not, and consumes no other step of the child.
C34_RepeatGreedy ==
    [][(RepeatPulls /\ searcher.max >= 1) =>
         \A k \in 1..Len(RepeatChild) :
            MatchesAt(RepeatConsumed, k) =>
               /\ step' = Fused(RepeatConsumed, Min(k, searcher.max), searcher.min)
               /\ RepeatConsumed' = RepeatConsumed + Min(k, searcher.max)]_vars

\* Repeat(2, 2) over a run of three matches: a Match of the first two, then
\* the third alone as a Reject.
C34_Witness ==
    /\ searcher.kind = "repeat" /\ searcher.min = 2 /\ searcher.max = 2
    /\ RepeatChild = <<Match(0, 1), Match(1, 2), Match(2, 3)>>
    /\ trace = <<Match(0, 2), Reject(2, 3)>>
    /\ pc = "checked"

-----------------------------------------------------------------------------
(* adapters::fused, both directions.  The child is any searcher that can be *)
(* stepped from both ends and need not be fused in either direction: what   *)
(* next() returns is in steps and what next_back() returns in rsteps.       *)
(* dones is 1 once next() of the FusedSearcher has returned Done, last_end  *)
(* is 1 once its next_back() has, and pc is the direction of the last call. *)

RECURSIVE Reversed(_)
Reversed(steps) ==
    IF steps = <<>> THEN <<>> ELSE Reversed(Tail(steps)) \o <<Head(steps)>>

DoubleLeaf(steps, rsteps, n) ==
    [kind |-> "leaf", steps |-> steps, pos |-> 0, rsteps |-> rsteps, rpos |-> 0, len |-> n]

DoubleLeaf_next_back(s) ==
    IF s.rpos < Len(s.rsteps)
    THEN Ret([s EXCEPT !.rpos = s.rpos + 1], s.rsteps[s.rpos + 1])
    ELSE Ret(s, Done)

\* `if step == SearchStep::Done { self.rexhausted = true; }`, r being what
\* self.searcher.next_back() returned.
FusedSearcher_back_step(s, r) ==
    Ret([s EXCEPT !.searcher = r.s, !.rexhausted = @ \/ (r.step = Done)], r.step)

\* FusedSearcher::next_back with `if self.exhausted` in place of
\* `if self.rexhausted`.
FusedSearcher_next_back_shared(s) ==
    IF s.exhausted THEN Ret(s, Done)
    ELSE FusedSearcher_back_step(s, DoubleLeaf_next_back(s.searcher))

FusedSearcher_next_back(s) ==
    IF s.rexhausted THEN Ret(s, Done)
    ELSE FusedSearcher_back_step(s, DoubleLeaf_next_back(s.searcher))

InitFusedBack ==
    /\ \E n \in 0..MaxLen :
       \E p \in PairChildren(n), q \in LateTails(n), rq \in LateTails(n) :
          searcher = FusedSearcher(DoubleLeaf(p \o <<Done>> \o q,
                                              Reversed(p) \o <<Done>> \o rq, n))
    /\ reference = NoSearcher
    /\ InitHarness

\* searcher.next().
FusedFront ==
    /\ \E r \in {FusedSearcher_next(searcher)} :
       /\ searcher' = r.s
       /\ step' = r.step
       /\ dones' = IF r.step = Done THEN 1 ELSE dones
    /\ pc' = "front"
    /\ UNCHANGED <<reference, reference_step, trace, last_end>>

\* searcher.next_back().
FusedBack ==
    /\ \E r \in {FusedSearcher_next_back(searcher)} :
       /\ searcher' = r.s
       /\ step' = r.step
       /\ last_end' = IF r.step = Done THEN 1 ELSE last_end
    /\ pc' = "back"
    /\ UNCHANGED <<reference, reference_step, trace, dones>>

NextFusedBack == FusedFront \/ FusedBack

SpecFusedBack == InitFusedBack /\ [][NextFusedBack]_vars

\* C35: next() of the FusedSearcher returns Done without a call of the child
\* once next() has returned Done, and until then returns what the child's
\* next() returns, whatever next_back() has returned; and the same for
\* next_back() with the directions exchanged.
C35_FusedDirections ==
    [][/\ pc' = "front" =>
            IF dones = 1
            THEN step' = Done /\ searcher'.searcher = searcher.searcher
            ELSE /\ step' = Leaf_next(searcher.searcher).step
                 /\ searcher'.searcher = Leaf_next(searcher.searcher).s
       /\ pc' = "back" =>
            IF last_end = 1
            THEN step' = Done /\ searcher'.searcher = searcher.searcher
            ELSE /\ step' = DoubleLeaf_next_back(searcher.searcher).step
                 /\ searcher'.searcher = DoubleLeaf_next_back(searcher.searcher).s]_vars

\* After next() has returned Done, next_back() has just returned a step of
\* the child; the child has a further step to return from the front.
C35_Witness ==
    /\ searcher.kind = "fused" /\ pc = "back"
    /\ dones = 1 /\ last_end = 0
    /\ IsSpan(step)
    /\ searcher.searcher.rpos >= 1
    /\ searcher.searcher.pos < Len(searcher.searcher.steps)
    /\ IsSpan(searcher.searcher.steps[searcher.searcher.pos + 1])

-----------------------------------------------------------------------------
(* And of two different children.  reference keeps the steps of the two     *)
(* children.                                                                *)

\* The children of And: consecutive Rejects allowed (Not turns them into
\* consecutive matches), at most MaxEmpty empty matches each.
AndChildren(n) == Tails(0, n, TRUE, MaxEmpty)

InitAndPair ==
    /\ \E n \in 0..MaxLen :
       \E sa \in AndChildren(n), sb \in AndChildren(n) :
            /\ searcher = AndSearcher(Leaf(sa, n), Leaf(sb, n))
            /\ reference = [a |-> sa, b |-> sb]
    /\ InitHarness

SpecAndPair == InitAndPair /\ [][Next]_vars

\* The positions of the haystack inside a Reject of a child.
RejectedBy(steps) ==
    UNION {steps[i].start..(steps[i].end - 1) :
              i \in {j \in DOMAIN steps : steps[j].tag = "Reject"}}

\* C36: no position inside a Match returned by And(A, B) is inside a Reject
\* of A or inside a Reject of B.
C36_AndInsideBoth ==
    (searcher.kind = "not" /\ "a" \in DOMAIN reference) =>
        \A i \in 1..Len(trace) :
            trace[i].tag = "Match" =>
                \A x \in trace[i].start..(trace[i].end - 1) :
                    x \notin RejectedBy(reference.a) /\ x \notin RejectedBy(reference.b)

-----------------------------------------------------------------------------
(* Limit(n) beside Skip(n) over the same child: searcher is the             *)
(* LimitSearcher and reference the SkipSearcher, each with a searcher of    *)
(* the child of its own; dones keeps the n they were built with.            *)

InitLimitSkip ==
    /\ \E n \in 0..MaxLen :
       \E sa \in Partitions(n), k \in 0..MaxCount :
          /\ searcher = LimitSearcher(Leaf(sa, n), k)
          /\ reference = SkipSearcher(Leaf(sa, n), k)
          /\ dones = k
    /\ step = NoStep /\ reference_step = NoStep
    /\ trace = <<>> /\ last_end = 0
    /\ pc = "loop"

\* next() on both searchers, until the LimitSearcher returns Done.
LimitSkipCall ==
    /\ pc = "loop"
    /\ \E r \in {LimitSearcher_next(searcher)}, o \in {SkipSearcher_next(reference)} :
       /\ searcher' = r.s
       /\ reference' = o.s
       /\ step' = r.step
       /\ reference_step' = o.step
       /\ trace' = IF IsSpan(r.step) THEN Append(trace, r.step) ELSE trace
       /\ last_end' = IF IsSpan(r.step) THEN r.step.end ELSE last_end
       /\ pc' = IF IsSpan(r.step) THEN "loop" ELSE "done"
    /\ UNCHANGED dones

NextLimitSkip == LimitSkipCall

SpecLimitSkip == InitLimitSkip /\ [][NextLimitSkip]_vars

\* The step of the child that the last call of next() passed on, Done when
\* the child had none left.
LastChildStep ==
    IF pc = "done" THEN Done ELSE searcher.searcher.steps[searcher.searcher.pos]

\* C37: Limit(n) and Skip(n) over the same child return steps with the same
\* start and end at every call; when the child's step is a Match, the step
\* of Limit is a Match and that of Skip a Reject if it is one of the first n
\* matches of the child, and the other way round if it is a later one; when
\* it is a Reject both return a Reject, and both return Done together.
C37_LimitSkipPartition ==
    (searcher.kind = "limit" /\ reference.kind = "skip" /\ step # NoStep) =>
        /\ reference.searcher.pos = searcher.searcher.pos
        /\ step.start = reference_step.start /\ step.end = reference_step.end
        /\ step.start = LastChildStep.start /\ step.end = LastChildStep.end
        /\ CASE LastChildStep.tag = "Match" ->
                    IF MatchCount(searcher.searcher.steps, searcher.searcher.pos) <= dones
                    THEN step.tag = "Match" /\ reference_step.tag = "Reject"
                    ELSE step.tag = "Reject" /\ reference_step.tag = "Match"
             [] LastChildStep.tag = "Reject" ->
                    step.tag = "Reject" /\ reference_step.tag = "Reject"
             [] OTHER -> step = Done /\ reference_step = Done

\* Limit(1) beside Skip(1) over a child with two matches in a row: at the
\* first call Limit returned the Match and Skip a Reject, at the second one
\* Limit a Reject and Skip the Match.
C37_Witness ==
    /\ searcher.kind = "limit" /\ reference.kind = "skip" /\ dones = 1
    /\ searcher.searcher.steps = <<Match(0, 1), Match(1, 2)>>
    /\ trace = <<Match(0, 1), Reject(1, 2)>>
    /\ step = Reject(1, 2) /\ reference_step = Match(1, 2)

-----------------------------------------------------------------------------
\* CharSearcher::haystack of adapters::stateful: `self.chars.as_str()`, the
\* chars that the iterator has not returned yet.
StatefulCharSearcher_haystack(s) == [i \in 1..Len(s.chars) |-> s.chars[i][2]]

\* C38: after any number of calls of next(), haystack() of the stateful char
\* searcher returns the haystack the searcher was built with.
C38_HaystackConstant ==
    searcher.kind = "stateful" =>
        StatefulCharSearcher_haystack(searcher) = StatefulCharSearcher_haystack(reference)

-----------------------------------------------------------------------------
\* C39: the Match steps returned by the Simplify searcher are the matches of
\* its child, in order and with their bounds: as long as it runs they are the
\* first of them, and when it has returned Done they are all of them.
C39_SimplifyMatches ==
    searcher.kind = "simplify" =>
        /\ pc # "panicked"
        /\ Len(MatchesOf(trace)) <= Len(MatchesOf(searcher.searcher.steps))
        /\ MatchesOf(trace)
              = SubSeq(MatchesOf(searcher.searcher.steps), 1, Len(MatchesOf(trace)))
        /\ pc \in {"done", "checked"} =>
              MatchesOf(trace) = MatchesOf(searcher.searcher.steps)

\* A complete run of Simplify over a child with an empty match, a match next
\* to it and a match after a Reject.
C39_Witness ==
    /\ searcher.kind = "simplify" /\ pc = "checked"
    /\ searcher.searcher.steps = <<Match(0, 0), Match(0, 1), Reject(1, 2), Match(2, 3)>>
    /\ MatchesOf(trace) = <<<<0, 0>>, <<0, 1>>, <<2, 3>>>>

-----------------------------------------------------------------------------
(* LimitedSearcher over every partition and every limit up to MaxCount,     *)
(* polled as assert_integrity polls a searcher.  reference keeps the        *)
(* searcher as into_searcher built it.                                      *)

InitLimited ==
    /\ \E n \in 0..MaxLen :
       \E sa \in Partitions(n), k \in 0..MaxCount :
            searcher = LimitedSearcher(Leaf(sa, n), k)
    /\ reference = searcher
    /\ InitHarness

SpecLimited == InitLimited /\ [][Next]_vars

\* The steps of the child of the LimitedSearcher s.
LimitedChildSteps(s) == s.searcher.searcher.searcher.steps

\* The position, in the steps of a child, of its k-th Match.
MatchPosition(steps, k) ==
    CHOOSE i \in 1..Len(steps) :
        steps[i].tag = "Match" /\ Len(MatchesOf(SubSeq(steps, 1, i))) = k

====
